---- MODULE Spec2Model ----
(***************************************************************************)
(* Model of the numerology calculation engine (backend/services):          *)
(* NumerologyService, PratyantarService and the two numerology endpoints.  *)
(* Dates are datetime values [year, month, day, hour]; the calendar        *)
(* arithmetic follows the proleptic Gregorian ordinal used by datetime.    *)
(***************************************************************************)
EXTENDS Integers, Sequences, FiniteSets, TLC

(***************************************************************************)
(* Calendar arithmetic used by datetime(...), timedelta and comparisons.   *)
(***************************************************************************)

\* return value None (get_mahadasha_for_date finds no period)
None == -1

IsLeap(y) == (y % 4 = 0) /\ ((y % 100 # 0) \/ (y % 400 = 0))

DAYS_IN_MONTH == <<31, 28, 31, 30, 31, 30, 31, 31, 30, 31, 30, 31>>

DAYS_BEFORE_MONTH == <<0, 31, 59, 90, 120, 151, 181, 212, 243, 273, 304, 334>>

DaysInMonth(y, m) == IF m = 2 /\ IsLeap(y) THEN 29 ELSE DAYS_IN_MONTH[m]

DaysBeforeYear(year) ==
    LET y == year - 1 IN y * 365 + (y \div 4) - (y \div 100) + (y \div 400)

DaysBeforeMonth(y, m) ==
    DAYS_BEFORE_MONTH[m] + (IF m > 2 /\ IsLeap(y) THEN 1 ELSE 0)

\* date.toordinal(): 1 for 0001-01-01
Ymd2Ord(y, m, d) == DaysBeforeYear(y) + DaysBeforeMonth(y, m) + d

\* date.fromordinal(), last step: the month estimate is one too high when
\* more days precede it than the day of the year n
Ord2YmdDay(year, n, leapyear, month, preceding) ==
    IF preceding > n
    THEN [year  |-> year,
          month |-> month - 1,
          day   |-> n - (preceding - (DAYS_IN_MONTH[month - 1]
                         + (IF month - 1 = 2 /\ leapyear THEN 1 ELSE 0))) + 1]
    ELSE [year |-> year, month |-> month, day |-> n - preceding + 1]

\* date.fromordinal(): the days that precede the estimated month
Ord2YmdMonth(year, n, leapyear, month) ==
    Ord2YmdDay(year, n, leapyear, month,
               DAYS_BEFORE_MONTH[month] + (IF month > 2 /\ leapyear THEN 1 ELSE 0))

\* date.fromordinal(): the year is known; n is the day of the year from 0
Ord2YmdYear(year, n100, n4, n1, n) ==
    IF n1 = 4 \/ n100 = 4
    THEN [year |-> year - 1, month |-> 12, day |-> 31]
    ELSE Ord2YmdMonth(year, n, n1 = 3 /\ (n4 # 24 \/ n100 = 3), (n + 50) \div 32)

\* date.fromordinal(): 4-year cycles and single years
Ord2Ymd4(n400, n100, n4, r4) ==
    Ord2YmdYear(n400 * 400 + 1 + n100 * 100 + n4 * 4 + (r4 \div 365),
                n100, n4, r4 \div 365, r4 % 365)

\* date.fromordinal(): 100-year cycles
Ord2Ymd100(n400, n100, r100) == Ord2Ymd4(n400, n100, r100 \div 1461, r100 % 1461)

\* date.fromordinal(): 400-year cycles
Ord2Ymd400(n400, r400) == Ord2Ymd100(n400, r400 \div 36524, r400 % 36524)

\* date.fromordinal(): the [year, month, day] of an ordinal
Ord2Ymd(ordinal) == Ord2Ymd400((ordinal - 1) \div 146097, (ordinal - 1) % 146097)

\* datetime(year, month, day) raises ValueError unless this holds
ValidDate(y, m, d) ==
    /\ 1 <= y /\ y <= 9999
    /\ 1 <= m /\ m <= 12
    /\ 1 <= d /\ d <= DaysInMonth(y, m)

\* datetime(year, month, day): midnight of a valid date
Datetime(y, m, d) == [year |-> y, month |-> m, day |-> d, hour |-> 0]

Ordinal(dt) == Ymd2Ord(dt.year, dt.month, dt.day)

\* total order of datetime values (date, then time of day)
DtKey(dt) == Ordinal(dt) * 24 + dt.hour

DtLt(a, b) == DtKey(a) < DtKey(b)

DtLe(a, b) == DtKey(a) <= DtKey(b)

\* the date d at a time of day
AtHour(d, hour) == [year |-> d.year, month |-> d.month, day |-> d.day, hour |-> hour]

\* dt + timedelta(days=n)
AddDays(dt, n) == AtHour(Ord2Ymd(Ordinal(dt) + n), dt.hour)

\* (a - b).days for datetimes with the same time of day
DaysBetween(a, b) == Ordinal(a) - Ordinal(b)

\* datetime.date(): the calendar day, time of day dropped
DateOf(dt) == [year |-> dt.year, month |-> dt.month, day |-> dt.day]

DateOrd(d) == Ymd2Ord(d.year, d.month, d.day)

\* datetime.isoformat(): the fields of 'YYYY-MM-DDTHH:00:00'
IsoFormat(dt) ==
    [yyyy |-> dt.year, mm |-> dt.month, dd |-> dt.day, hh |-> dt.hour, T |-> TRUE]

\* datetime.fromisoformat(s) as used by get_mahadasha_for_date
FromIsoFormat(s) ==
    IF s.T
    THEN [year |-> s.yyyy, month |-> s.mm, day |-> s.dd, hour |-> s.hh]
    ELSE [year |-> s.yyyy, month |-> s.mm, day |-> s.dd, hour |-> 0]

\* date.weekday(): Monday = 0 .. Sunday = 6
Weekday(dt) == (Ordinal(dt) + 6) % 7

(***************************************************************************)
(* Bounds of the model and its input sets.                                 *)
(***************************************************************************)

\* birthdates <<day, month, year>> offered to the operations
BirthdatePool ==
    << <<26, 2, 1982>>, <<29, 2, 2000>>, <<30, 6, 1986>>, <<31, 2, 1990>>,
       <<1, 1, 1900>>,  <<31, 12, 2100>>, <<29, 2, 1990>>, <<1, 3, 2004>>,
       <<28, 2, 1999>>, <<10, 10, 2010>> >>

NumBirthdates == 8

MaxYearsAhead == 25

Birthdates == { BirthdatePool[i] : i \in 1..NumBirthdates }

\* birthdates that datetime(year, month, day) accepts
DobDates ==
    { Datetime(b[3], b[2], b[1]) : b \in { x \in Birthdates : ValidDate(x[3], x[2], x[1]) } }

Roots == 1..9

YearsAheadSet == {0, 1, 2, 5, 17, MaxYearsAhead}

TargetYearSpan == 2

\* target years offered to generate_pratyantar_periods and the monthly grids
TargetYears == {1900, 2100, 2102, 2200} \cup ((2024 - TargetYearSpan)..(2024 + TargetYearSpan))

\* birth <<day, month>> pairs that exist in some year (29 February included)
DayMonths == { <<b[1], b[2]>> : b \in { x \in Birthdates : ValidDate(2000, x[2], x[1]) } }

\* birthdate strings that are not a 'DD/MM/YYYY' date the validators accept
MalformedBirthdates ==
    { <<"1", "9", "8", "2", "-", "0", "2", "-", "2", "6">>,
      <<"2", "6", "/", "0", "2">>,
      <<"a", "a", "/", "0", "2", "/", "1", "9", "8", "2">>,
      <<"2", "6", "/", "0", "2", "/", "1", "9", "8", "2", "/", "1">>,
      <<"3", "2", "/", "0", "1", "/", "1", "9", "9", "0">>,
      <<"2", "6", "/", "1", "3", "/", "1", "9", "8", "2">>,
      <<"2", "6", "/", "0", "2", "/", "1", "8", "9", "9">> }

\* optional start_year / end_year of Operation A (None: not given)
StartYears == {None, 1990, 2020}

EndYears == {None, 2030, 2200, 2201}

\* time of day (hour) carried by a query datetime
QueryHours == {0, 13}

NoDate == Datetime(1, 1, 1)

\* numbers offered to reduce_to_single: 0..MaxNumber
MaxNumber == 2300

NatalYearSpan == 15

\* birth years offered to the core numbers and the natal grid
NatalYears == {1900, 1982, 1986, 2100} \cup (1995..(1995 + NatalYearSpan))

\* <<day, month, year>> with day 1..31 and month 1..12, real dates or not
DayMonthYears == (1..31) \X (1..12) \X NatalYears

MaxCellCount == 2

\* days after the birthday offered as review dates: every weekday occurs
WeekdayOffsets == 0..6

\* Mahadasha and Personal Year values offered to build_mahadasha_base_counts
OverlayNumbers == 0..10

\* Basic Number lists offered to build_mahadasha_base_counts
BasicNumberLists ==
    {<<>>} \cup { <<x>> : x \in {1, 6, 7, 8, 10} }
           \cup { <<x, y>> : x, y \in {1, 6, 7, 8, 10} }

\* the module-level NumerologyService of the endpoints
Service == "service"

\* threads that call the endpoints at the same time
Callers == {"c1", "c2"}

\* endpoint calls started in one behaviour
MaxServiceCalls == 3

\* a caller that is running no call
IdleCall == [pc |-> "idle", request |-> [op |-> "none"], ps |-> None,
             response |-> [status |-> 0, raised_at |-> ""]]

(***************************************************************************)
(* NumerologyService.generate_mahadasha_timeline                           *)
(***************************************************************************)

\* line 250: the horizon datetime(dob.year + years_ahead, dob.month, dob.day)
HorizonValid(dob, ya) == ValidDate(dob.year + ya, dob.month, dob.day)

Horizon(dob, ya) == Datetime(dob.year + ya, dob.month, dob.day)

\* line 252: the loop guard
MahaGuard(cur_date, horizon) == DtLt(cur_date, horizon)

\* lines 255-259: datetime(...) raises ValueError when the day does not exist
DashaEndValid(cur_date, dasha_years) ==
    ValidDate(cur_date.year + dasha_years, cur_date.month, cur_date.day)

\* mutant: the period ends on the anniversary itself (the "- 1 day" is lost)
DashaEnd_no_minus_one(cur_date, dasha_years) ==
    Datetime(cur_date.year + dasha_years, cur_date.month, cur_date.day)

\* lines 255-259: start + dasha years - 1 day
DashaEnd(cur_date, dasha_years) ==
    AddDays(Datetime(cur_date.year + dasha_years, cur_date.month, cur_date.day), -1)

\* mutant: the period is not clipped to the horizon
ClipToHorizon_no_clip(end_dasha_date, horizon) == end_dasha_date

\* lines 262-263: don't exceed end_date
ClipToHorizon(end_dasha_date, horizon) ==
    IF DtLt(horizon, end_dasha_date) THEN horizon ELSE end_dasha_date

\* lines 265-270: the period appended to the timeline
MahaPeriod(cur_dasha, cur_date, end_dasha_date) ==
    [dasha_number   |-> cur_dasha,
     start_date     |-> IsoFormat(cur_date),
     end_date       |-> IsoFormat(end_dasha_date),
     duration_years |-> cur_dasha]

\* mutant: the next period starts on the day the previous one ends
NextStart_overlap(end_dasha_date) == end_dasha_date

\* line 273: move to the next dasha
NextStart(end_dasha_date) == AddDays(end_dasha_date, 1)

\* mutant: the cycle does not wrap
NextDasha_no_wrap(cur_dasha) == cur_dasha + 1

\* line 274: wrap after 9
NextDasha(cur_dasha) == (cur_dasha % 9) + 1

\* lines 253-274: one iteration of the loop
MahaBody(cur_date, cur_dasha, horizon) ==
    IF ~DashaEndValid(cur_date, cur_dasha)
    THEN [raised |-> TRUE, period |-> MahaPeriod(cur_dasha, cur_date, cur_date),
          next_date |-> cur_date, next_dasha |-> cur_dasha]
    ELSE LET end_dasha_date == ClipToHorizon(DashaEnd(cur_date, cur_dasha), horizon)
         IN  [raised     |-> FALSE,
              period     |-> MahaPeriod(cur_dasha, cur_date, end_dasha_date),
              next_date  |-> NextStart(end_dasha_date),
              next_dasha |-> NextDasha(cur_dasha)]

RECURSIVE MahaLoop(_, _, _, _)
MahaLoop(tl, cur_date, cur_dasha, horizon) ==
    IF ~MahaGuard(cur_date, horizon)
    THEN [raised |-> FALSE, timeline |-> tl]
    ELSE LET b == MahaBody(cur_date, cur_dasha, horizon)
         IN  IF b.raised
             THEN [raised |-> TRUE, timeline |-> <<>>]
             ELSE MahaLoop(Append(tl, b.period), b.next_date, b.next_dasha, horizon)

\* the whole call: [raised, timeline]
generate_mahadasha_timeline(dob, rt, ya) ==
    IF ~HorizonValid(dob, ya)
    THEN [raised |-> TRUE, timeline |-> <<>>]
    ELSE MahaLoop(<<>>, dob, rt, Horizon(dob, ya))

(***************************************************************************)
(* NumerologyService.get_mahadasha_for_date                                *)
(***************************************************************************)

\* lines 291-299: the period's bounds parsed back to dates
PeriodStart(period) == DateOf(FromIsoFormat(period.start_date))

PeriodEnd(period) == DateOf(FromIsoFormat(period.end_date))

\* mutant: the end date is treated as exclusive
PeriodContains_exclusive_end(period, day) ==
    /\ DateOrd(DateOf(FromIsoFormat(period.start_date))) <= DateOrd(day)
    /\ DateOrd(day) < DateOrd(DateOf(FromIsoFormat(period.end_date)))

\* line 301: start <= query_date_only <= end
PeriodContains(period, day) ==
    /\ DateOrd(PeriodStart(period)) <= DateOrd(day)
    /\ DateOrd(day) <= DateOrd(PeriodEnd(period))

RECURSIVE ScanTimeline(_, _, _)
ScanTimeline(tl, day, i) ==
    IF i > Len(tl) THEN None
    ELSE IF PeriodContains(tl[i], day) THEN tl[i].dasha_number
    ELSE ScanTimeline(tl, day, i + 1)

get_mahadasha_for_date(tl, query) == ScanTimeline(tl, DateOf(query), 1)

(***************************************************************************)
(* Digit reduction and NumerologyService.calculate_antardasha              *)
(***************************************************************************)

\* lines 54-59: sum of the decimal digits of str(number), number >= 0
RECURSIVE digit_sum(_)
digit_sum(number) ==
    IF number < 10 THEN number ELSE (number % 10) + digit_sum(number \div 10)

\* mutant: the digit sum is taken once, not repeated
reduce_to_single_once(number) ==
    IF number >= 10 THEN digit_sum(number) ELSE number

\* lines 61-69: repeat digit_sum while number >= 10
RECURSIVE reduce_to_single(_)
reduce_to_single(number) ==
    IF number >= 10 THEN reduce_to_single(digit_sum(number)) ELSE number

\* lines 32-40: planet number of a weekday, Sunday = 0 .. Saturday = 6
WEEKDAY_PLANET_MAP == [w \in 0..6 |-> <<1, 2, 9, 5, 3, 6, 8>>[w + 1]]

\* lines 19-40: the class attributes of NumerologyService, dict objects shared
\* by every call on the singleton, as a call finds them through self
VARIABLE class_attrs

\* mutant: the table is read with Monday = 0
weekday_to_planet_monday0(date) == class_attrs.WEEKDAY_PLANET_MAP[Weekday(date)]

\* lines 319-326: Python weekday (Monday = 0) to Sunday = 0, then the table
weekday_to_planet(date) ==
    LET weekday == Weekday(date)
    IN  class_attrs.WEEKDAY_PLANET_MAP[IF weekday = 6 THEN 0 ELSE weekday + 1]

\* mutant: the seed is fixed at 9 whatever the year
calculate_antardasha_fixed9(year, day, month, review_date, dob_root) == 9

\* lines 328-347: weekday planet + yy + root + month, reduced
calculate_antardasha(year, day, month, review_date, dob_root) ==
    LET yy == year % 100
        weekday_planet == weekday_to_planet(review_date)
        rt == IF dob_root = None THEN reduce_to_single(day) ELSE dob_root
        total == weekday_planet + yy + rt + month
    IN  reduce_to_single(total)

(***************************************************************************)
(* PratyantarService.generate_pratyantar_periods                           *)
(***************************************************************************)

\* a raised ValueError and the statement that raised it
Raised(where) == [raised |-> TRUE, raised_at |-> where]

\* lines 124-128, 142-145: datetime(year, month, day) raises and so does the
\* fallback datetime(year, month, 28) (a year outside 1..9999): the ValueError
\* leaves the function
ProjectBirthdayRaises(year, month, day) ==
    ~ValidDate(year, month, day) /\ ~ValidDate(year, month, 28)

\* mutant: a leap-day birthday is not moved to 28 February
ProjectBirthday_no_fallback(year, month, day) == Datetime(year, month, day)

\* lines 124-128, 142-145: the birthday in a year, 28th when the day is missing
ProjectBirthday(year, month, day) ==
    IF ValidDate(year, month, day) THEN Datetime(year, month, day)
    ELSE IF ValidDate(year, month, 28) THEN Datetime(year, month, 28)
    ELSE Raised("datetime")

\* strftime('%d/%m/%Y'): the fields of 'DD/MM/YYYY'
StrfDMY(dt) == [dd |-> dt.day, mm |-> dt.month, yyyy |-> dt.year]

\* mutant: a period lasts multi * 7 days
FullPeriodDuration_times7(multi) == multi * 7

\* line 152: duration multi * 8
FullPeriodDuration(multi) == multi * 8

\* mutant: the end is start + duration (one day too long)
PeriodEndDate_inclusive_off(cur_start, duration) == AddDays(cur_start, duration)

\* line 163: inclusive end
PeriodEndDate(cur_start, duration) == AddDays(cur_start, duration - 1)

\* mutant: the trailing remainder is emitted as a short period
SkipPartial_never(remaining_days, duration) == FALSE

\* line 158: the remaining days do not hold a full period
SkipPartial(remaining_days, duration) == remaining_days < duration

\* mutant: the next period starts on the day the previous one ends
PratyNextStart_overlap(cur_end) == cur_end

\* line 190: next start = end + 1
PratyNextStart(cur_end) == AddDays(cur_end, 1)

\* mutant: the cycle runs backwards
PratyNextMulti_down(multi) == IF multi = 1 THEN 9 ELSE multi - 1

\* line 193: 9 -> 1, 1 -> 2, ..., 8 -> 9
PratyNextMulti(multi) == IF multi = 9 THEN 1 ELSE multi + 1

\* lines 176-184: the period appended
PratyPeriod(multi, cur_start, cur_end, duration_days) ==
    [multi         |-> multi,
     pratyantar    |-> multi,
     start         |-> StrfDMY(cur_start),
     end           |-> StrfDMY(cur_end),
     start_date    |-> cur_start,
     end_date      |-> cur_end,
     duration_days |-> duration_days]

\* lines 149-193: one iteration: [stop, clamped, period, next_start, next_multi]
PratyBody(multi, cur_start, next_bday) ==
    LET full_period_duration == FullPeriodDuration(multi)
        remaining_days == DaysBetween(next_bday, cur_start)
        end0 == PeriodEndDate(cur_start, full_period_duration)
        clamp == DtLe(next_bday, end0)
        cur_end == IF clamp THEN AddDays(next_bday, -1) ELSE end0
        duration_days == IF clamp THEN DaysBetween(cur_end, cur_start) + 1
                         ELSE full_period_duration
        stop == SkipPartial(remaining_days, full_period_duration)
                \/ (clamp /\ duration_days < full_period_duration)
    IN  [stop       |-> stop,
         clamped    |-> ~SkipPartial(remaining_days, full_period_duration) /\ clamp,
         period     |-> PratyPeriod(multi, cur_start, cur_end, duration_days),
         next_start |-> PratyNextStart(cur_end),
         next_multi |-> PratyNextMulti(multi)]

\* line 148: the loop guard
PratyGuard(cur_start, next_bday) == DtLt(cur_start, next_bday)

RECURSIVE PratyLoop(_, _, _, _)
PratyLoop(ps, multi, cur_start, next_bday) ==
    IF ~PratyGuard(cur_start, next_bday) THEN ps
    ELSE LET b == PratyBody(multi, cur_start, next_bday)
         IN  IF b.stop THEN ps
             ELSE PratyLoop(Append(ps, b.period), b.next_multi, b.next_start, next_bday)

\* lines 124-128 and 142-145: one of the two birthdays cannot be built
PratyantarPeriodsRaise(year, day, month) ==
    ProjectBirthdayRaises(year, month, day) \/ ProjectBirthdayRaises(year + 1, month, day)

\* the whole call: the list of periods, or the ValueError of a birthday
generate_pratyantar_periods(year, day, month, dob_year, dob_root) ==
    IF ProjectBirthdayRaises(year, month, day) THEN Raised("year_birthday")
    ELSE IF ProjectBirthdayRaises(year + 1, month, day) THEN Raised("next_birthday")
    ELSE LET year_bday == ProjectBirthday(year, month, day)
             year_antardasha == calculate_antardasha(year, day, month, year_bday, dob_root)
         IN  PratyLoop(<<>>, year_antardasha, year_bday,
                       ProjectBirthday(year + 1, month, day))

(***************************************************************************)
(* Strings: a str is the sequence of its characters                        *)
(***************************************************************************)

\* A character is written as itself when it is printable ASCII, as "\t", "\n",
\* "\f", "\r" for these controls, and by its code point otherwise ("U+FF12" is
\* FULLWIDTH DIGIT TWO, "U+000B" the vertical tab).

DigitChars == <<"0", "1", "2", "3", "4", "5", "6", "7", "8", "9">>

\* int(str): the decimal digits of every script (Unicode category Nd, Unicode
\* 14.0 of Python 3.11), one row per script from its zero to its nine
DecimalDigitRows ==
    <<<<"0", "1", "2", "3", "4", "5", "6", "7", "8", "9">>,
      <<"U+0660", "U+0661", "U+0662", "U+0663", "U+0664", "U+0665", "U+0666", "U+0667", "U+0668", "U+0669">>,
      <<"U+06F0", "U+06F1", "U+06F2", "U+06F3", "U+06F4", "U+06F5", "U+06F6", "U+06F7", "U+06F8", "U+06F9">>,
      <<"U+07C0", "U+07C1", "U+07C2", "U+07C3", "U+07C4", "U+07C5", "U+07C6", "U+07C7", "U+07C8", "U+07C9">>,
      <<"U+0966", "U+0967", "U+0968", "U+0969", "U+096A", "U+096B", "U+096C", "U+096D", "U+096E", "U+096F">>,
      <<"U+09E6", "U+09E7", "U+09E8", "U+09E9", "U+09EA", "U+09EB", "U+09EC", "U+09ED", "U+09EE", "U+09EF">>,
      <<"U+0A66", "U+0A67", "U+0A68", "U+0A69", "U+0A6A", "U+0A6B", "U+0A6C", "U+0A6D", "U+0A6E", "U+0A6F">>,
      <<"U+0AE6", "U+0AE7", "U+0AE8", "U+0AE9", "U+0AEA", "U+0AEB", "U+0AEC", "U+0AED", "U+0AEE", "U+0AEF">>,
      <<"U+0B66", "U+0B67", "U+0B68", "U+0B69", "U+0B6A", "U+0B6B", "U+0B6C", "U+0B6D", "U+0B6E", "U+0B6F">>,
      <<"U+0BE6", "U+0BE7", "U+0BE8", "U+0BE9", "U+0BEA", "U+0BEB", "U+0BEC", "U+0BED", "U+0BEE", "U+0BEF">>,
      <<"U+0C66", "U+0C67", "U+0C68", "U+0C69", "U+0C6A", "U+0C6B", "U+0C6C", "U+0C6D", "U+0C6E", "U+0C6F">>,
      <<"U+0CE6", "U+0CE7", "U+0CE8", "U+0CE9", "U+0CEA", "U+0CEB", "U+0CEC", "U+0CED", "U+0CEE", "U+0CEF">>,
      <<"U+0D66", "U+0D67", "U+0D68", "U+0D69", "U+0D6A", "U+0D6B", "U+0D6C", "U+0D6D", "U+0D6E", "U+0D6F">>,
      <<"U+0DE6", "U+0DE7", "U+0DE8", "U+0DE9", "U+0DEA", "U+0DEB", "U+0DEC", "U+0DED", "U+0DEE", "U+0DEF">>,
      <<"U+0E50", "U+0E51", "U+0E52", "U+0E53", "U+0E54", "U+0E55", "U+0E56", "U+0E57", "U+0E58", "U+0E59">>,
      <<"U+0ED0", "U+0ED1", "U+0ED2", "U+0ED3", "U+0ED4", "U+0ED5", "U+0ED6", "U+0ED7", "U+0ED8", "U+0ED9">>,
      <<"U+0F20", "U+0F21", "U+0F22", "U+0F23", "U+0F24", "U+0F25", "U+0F26", "U+0F27", "U+0F28", "U+0F29">>,
      <<"U+1040", "U+1041", "U+1042", "U+1043", "U+1044", "U+1045", "U+1046", "U+1047", "U+1048", "U+1049">>,
      <<"U+1090", "U+1091", "U+1092", "U+1093", "U+1094", "U+1095", "U+1096", "U+1097", "U+1098", "U+1099">>,
      <<"U+17E0", "U+17E1", "U+17E2", "U+17E3", "U+17E4", "U+17E5", "U+17E6", "U+17E7", "U+17E8", "U+17E9">>,
      <<"U+1810", "U+1811", "U+1812", "U+1813", "U+1814", "U+1815", "U+1816", "U+1817", "U+1818", "U+1819">>,
      <<"U+1946", "U+1947", "U+1948", "U+1949", "U+194A", "U+194B", "U+194C", "U+194D", "U+194E", "U+194F">>,
      <<"U+19D0", "U+19D1", "U+19D2", "U+19D3", "U+19D4", "U+19D5", "U+19D6", "U+19D7", "U+19D8", "U+19D9">>,
      <<"U+1A80", "U+1A81", "U+1A82", "U+1A83", "U+1A84", "U+1A85", "U+1A86", "U+1A87", "U+1A88", "U+1A89">>,
      <<"U+1A90", "U+1A91", "U+1A92", "U+1A93", "U+1A94", "U+1A95", "U+1A96", "U+1A97", "U+1A98", "U+1A99">>,
      <<"U+1B50", "U+1B51", "U+1B52", "U+1B53", "U+1B54", "U+1B55", "U+1B56", "U+1B57", "U+1B58", "U+1B59">>,
      <<"U+1BB0", "U+1BB1", "U+1BB2", "U+1BB3", "U+1BB4", "U+1BB5", "U+1BB6", "U+1BB7", "U+1BB8", "U+1BB9">>,
      <<"U+1C40", "U+1C41", "U+1C42", "U+1C43", "U+1C44", "U+1C45", "U+1C46", "U+1C47", "U+1C48", "U+1C49">>,
      <<"U+1C50", "U+1C51", "U+1C52", "U+1C53", "U+1C54", "U+1C55", "U+1C56", "U+1C57", "U+1C58", "U+1C59">>,
      <<"U+A620", "U+A621", "U+A622", "U+A623", "U+A624", "U+A625", "U+A626", "U+A627", "U+A628", "U+A629">>,
      <<"U+A8D0", "U+A8D1", "U+A8D2", "U+A8D3", "U+A8D4", "U+A8D5", "U+A8D6", "U+A8D7", "U+A8D8", "U+A8D9">>,
      <<"U+A900", "U+A901", "U+A902", "U+A903", "U+A904", "U+A905", "U+A906", "U+A907", "U+A908", "U+A909">>,
      <<"U+A9D0", "U+A9D1", "U+A9D2", "U+A9D3", "U+A9D4", "U+A9D5", "U+A9D6", "U+A9D7", "U+A9D8", "U+A9D9">>,
      <<"U+A9F0", "U+A9F1", "U+A9F2", "U+A9F3", "U+A9F4", "U+A9F5", "U+A9F6", "U+A9F7", "U+A9F8", "U+A9F9">>,
      <<"U+AA50", "U+AA51", "U+AA52", "U+AA53", "U+AA54", "U+AA55", "U+AA56", "U+AA57", "U+AA58", "U+AA59">>,
      <<"U+ABF0", "U+ABF1", "U+ABF2", "U+ABF3", "U+ABF4", "U+ABF5", "U+ABF6", "U+ABF7", "U+ABF8", "U+ABF9">>,
      <<"U+FF10", "U+FF11", "U+FF12", "U+FF13", "U+FF14", "U+FF15", "U+FF16", "U+FF17", "U+FF18", "U+FF19">>,
      <<"U+104A0", "U+104A1", "U+104A2", "U+104A3", "U+104A4", "U+104A5", "U+104A6", "U+104A7", "U+104A8", "U+104A9">>,
      <<"U+10D30", "U+10D31", "U+10D32", "U+10D33", "U+10D34", "U+10D35", "U+10D36", "U+10D37", "U+10D38", "U+10D39">>,
      <<"U+11066", "U+11067", "U+11068", "U+11069", "U+1106A", "U+1106B", "U+1106C", "U+1106D", "U+1106E", "U+1106F">>,
      <<"U+110F0", "U+110F1", "U+110F2", "U+110F3", "U+110F4", "U+110F5", "U+110F6", "U+110F7", "U+110F8", "U+110F9">>,
      <<"U+11136", "U+11137", "U+11138", "U+11139", "U+1113A", "U+1113B", "U+1113C", "U+1113D", "U+1113E", "U+1113F">>,
      <<"U+111D0", "U+111D1", "U+111D2", "U+111D3", "U+111D4", "U+111D5", "U+111D6", "U+111D7", "U+111D8", "U+111D9">>,
      <<"U+112F0", "U+112F1", "U+112F2", "U+112F3", "U+112F4", "U+112F5", "U+112F6", "U+112F7", "U+112F8", "U+112F9">>,
      <<"U+11450", "U+11451", "U+11452", "U+11453", "U+11454", "U+11455", "U+11456", "U+11457", "U+11458", "U+11459">>,
      <<"U+114D0", "U+114D1", "U+114D2", "U+114D3", "U+114D4", "U+114D5", "U+114D6", "U+114D7", "U+114D8", "U+114D9">>,
      <<"U+11650", "U+11651", "U+11652", "U+11653", "U+11654", "U+11655", "U+11656", "U+11657", "U+11658", "U+11659">>,
      <<"U+116C0", "U+116C1", "U+116C2", "U+116C3", "U+116C4", "U+116C5", "U+116C6", "U+116C7", "U+116C8", "U+116C9">>,
      <<"U+11730", "U+11731", "U+11732", "U+11733", "U+11734", "U+11735", "U+11736", "U+11737", "U+11738", "U+11739">>,
      <<"U+118E0", "U+118E1", "U+118E2", "U+118E3", "U+118E4", "U+118E5", "U+118E6", "U+118E7", "U+118E8", "U+118E9">>,
      <<"U+11950", "U+11951", "U+11952", "U+11953", "U+11954", "U+11955", "U+11956", "U+11957", "U+11958", "U+11959">>,
      <<"U+11C50", "U+11C51", "U+11C52", "U+11C53", "U+11C54", "U+11C55", "U+11C56", "U+11C57", "U+11C58", "U+11C59">>,
      <<"U+11D50", "U+11D51", "U+11D52", "U+11D53", "U+11D54", "U+11D55", "U+11D56", "U+11D57", "U+11D58", "U+11D59">>,
      <<"U+11DA0", "U+11DA1", "U+11DA2", "U+11DA3", "U+11DA4", "U+11DA5", "U+11DA6", "U+11DA7", "U+11DA8", "U+11DA9">>,
      <<"U+16A60", "U+16A61", "U+16A62", "U+16A63", "U+16A64", "U+16A65", "U+16A66", "U+16A67", "U+16A68", "U+16A69">>,
      <<"U+16AC0", "U+16AC1", "U+16AC2", "U+16AC3", "U+16AC4", "U+16AC5", "U+16AC6", "U+16AC7", "U+16AC8", "U+16AC9">>,
      <<"U+16B50", "U+16B51", "U+16B52", "U+16B53", "U+16B54", "U+16B55", "U+16B56", "U+16B57", "U+16B58", "U+16B59">>,
      <<"U+1D7CE", "U+1D7CF", "U+1D7D0", "U+1D7D1", "U+1D7D2", "U+1D7D3", "U+1D7D4", "U+1D7D5", "U+1D7D6", "U+1D7D7">>,
      <<"U+1D7D8", "U+1D7D9", "U+1D7DA", "U+1D7DB", "U+1D7DC", "U+1D7DD", "U+1D7DE", "U+1D7DF", "U+1D7E0", "U+1D7E1">>,
      <<"U+1D7E2", "U+1D7E3", "U+1D7E4", "U+1D7E5", "U+1D7E6", "U+1D7E7", "U+1D7E8", "U+1D7E9", "U+1D7EA", "U+1D7EB">>,
      <<"U+1D7EC", "U+1D7ED", "U+1D7EE", "U+1D7EF", "U+1D7F0", "U+1D7F1", "U+1D7F2", "U+1D7F3", "U+1D7F4", "U+1D7F5">>,
      <<"U+1D7F6", "U+1D7F7", "U+1D7F8", "U+1D7F9", "U+1D7FA", "U+1D7FB", "U+1D7FC", "U+1D7FD", "U+1D7FE", "U+1D7FF">>,
      <<"U+1E140", "U+1E141", "U+1E142", "U+1E143", "U+1E144", "U+1E145", "U+1E146", "U+1E147", "U+1E148", "U+1E149">>,
      <<"U+1E2F0", "U+1E2F1", "U+1E2F2", "U+1E2F3", "U+1E2F4", "U+1E2F5", "U+1E2F6", "U+1E2F7", "U+1E2F8", "U+1E2F9">>,
      <<"U+1E950", "U+1E951", "U+1E952", "U+1E953", "U+1E954", "U+1E955", "U+1E956", "U+1E957", "U+1E958", "U+1E959">>,
      <<"U+1FBF0", "U+1FBF1", "U+1FBF2", "U+1FBF3", "U+1FBF4", "U+1FBF5", "U+1FBF6", "U+1FBF7", "U+1FBF8", "U+1FBF9">>>>

DecimalDigitChars ==
    { DecimalDigitRows[r][i] : r \in 1..Len(DecimalDigitRows), i \in 1..10 }

\* int(str): the value 0..9 of each decimal digit
DecimalDigitValue ==
    [c \in DecimalDigitChars |->
        (CHOOSE i \in 1..10 :
            \E r \in 1..Len(DecimalDigitRows) : DecimalDigitRows[r][i] = c) - 1]

IsDigit(c) == c \in DecimalDigitChars

DigitVal(c) == DecimalDigitValue[c]

\* int(str): the whitespace skipped around the literal
WhitespaceChars ==
    {" ", "\t", "\n", "U+000B", "\f", "\r", "U+0085", "U+00A0",
     "U+1680", "U+2000", "U+2001", "U+2002", "U+2003", "U+2004", "U+2005", "U+2006",
     "U+2007", "U+2008", "U+2009", "U+200A", "U+2028", "U+2029", "U+202F", "U+205F",
     "U+3000"}

\* str(n) for a digit 0..9
Str(n) == DigitChars[n + 1]

\* str.split(sep): the parts between the separators
RECURSIVE SplitFrom(_, _, _, _)
SplitFrom(str, sep, i, cur) ==
    IF i > Len(str) THEN <<cur>>
    ELSE IF str[i] = sep THEN <<cur>> \o SplitFrom(str, sep, i + 1, <<>>)
    ELSE SplitFrom(str, sep, i + 1, Append(cur, str[i]))

Split(str, sep) == SplitFrom(str, sep, 1, <<>>)

\* int(str): the text without the whitespace around it
RECURSIVE Strip(_)
Strip(str) ==
    IF str = <<>> THEN str
    ELSE IF Head(str) \in WhitespaceChars THEN Strip(Tail(str))
    ELSE IF str[Len(str)] \in WhitespaceChars THEN Strip(SubSeq(str, 1, Len(str) - 1))
    ELSE str

RECURSIVE DigitsValue(_, _)
DigitsValue(str, acc) ==
    IF str = <<>> THEN acc
    ELSE IF Head(str) = "_" THEN DigitsValue(Tail(str), acc)
    ELSE DigitsValue(Tail(str), acc * 10 + DigitVal(Head(str)))

\* int(str): the digits after the sign are a decimal literal (single
\* underscores between digits allowed)
IntBodyOk(body) ==
    /\ body # <<>>
    /\ \A i \in 1..Len(body) : IsDigit(body[i]) \/ body[i] = "_"
    /\ IsDigit(body[1]) /\ IsDigit(body[Len(body)])
    /\ \A i \in 1..(Len(body) - 1) : ~(body[i] = "_" /\ body[i + 1] = "_")

\* int(str): the value of a sign and a body
ParseSigned(negative, body) ==
    IF ~IntBodyOk(body) THEN [ok |-> FALSE, value |-> 0]
    ELSE [ok |-> TRUE,
          value |-> IF negative THEN 0 - DigitsValue(body, 0) ELSE DigitsValue(body, 0)]

\* int(str): an optional sign leads the stripped text
ParseStripped(t) ==
    IF t # <<>> /\ Head(t) \in {"+", "-"}
    THEN ParseSigned(Head(t) = "-", Tail(t))
    ELSE ParseSigned(FALSE, t)

\* int(str): [ok, value]; ok = FALSE stands for ValueError
ParseInt(str) == ParseStripped(Strip(str))

\* the text 'DD', 'MM', 'YYYY' of a number, zero padded to a width
RECURSIVE Pad(_, _)
Pad(n, width) ==
    IF width = 0 THEN <<>> ELSE Append(Pad(n \div 10, width - 1), Str(n % 10))

\* a birthdate <<day, month, year>> written 'DD/MM/YYYY'
BirthdateText(b) == Pad(b[1], 2) \o <<"/">> \o Pad(b[2], 2) \o <<"/">> \o Pad(b[3], 4)

(***************************************************************************)
(* Request validators of the numerology endpoints                          *)
(***************************************************************************)

\* endpoints lines 29-34 and 59-64: the ranges of day, month and year
BirthdateInRange(day, month, year) ==
    /\ 1 <= day /\ day <= 31
    /\ 1 <= month /\ month <= 12
    /\ 1900 <= year /\ year <= 2100

\* endpoints lines 25-34 and 55-64: three parts, each an int, each in range
ValidateParts(parts) ==
    /\ Len(parts) = 3
    /\ \A i \in 1..3 : ParseInt(parts[i]).ok
    /\ BirthdateInRange(ParseInt(parts[1]).value, ParseInt(parts[2]).value,
                        ParseInt(parts[3]).value)

\* endpoints lines 22-37 and 52-67: validate_birthdate accepts the string
validate_birthdate(v) == ValidateParts(Split(v, "/"))

\* endpoints lines 39-44: validate_year_range accepts start_year / end_year
validate_year_range(v) == v # None => (1900 <= v /\ v <= 2200)

\* endpoints lines 69-73: validate_year accepts the target year
validate_year(v) == 1900 <= v /\ v <= 2200

(***************************************************************************)
(* Core numbers and the natal grid                                         *)
(***************************************************************************)

\* the absent cell value (None) of a grid of strings
NoneStr == <<"None">>

\* lines 71-76
calculate_root_number(day) == reduce_to_single(day)

\* lines 78-83
calculate_month_number(month) == reduce_to_single(month)

\* lines 85-90
calculate_year_number(year) == reduce_to_single(year)

\* mutant: the sum is returned without reduction
calculate_destiny_number_unreduced(rt, month, year) == rt + month + year

\* lines 92-101
calculate_destiny_number(rt, month, year) == reduce_to_single(rt + month + year)

\* lines 103-117
calculate_basic_numbers(day, year) ==
    <<reduce_to_single(day), reduce_to_single(year % 100)>>

\* tens digit if non-zero, then ones digit if non-zero
TensOnes(n) ==
    (IF n \div 10 > 0 THEN <<n \div 10>> ELSE <<>>)
    \o (IF n % 10 > 0 THEN <<n % 10>> ELSE <<>>)

\* mutant: the root is appended whatever include_root says
extract_day_digits_always_root(day, include_root) ==
    TensOnes(day) \o <<reduce_to_single(day)>>

\* lines 119-141
extract_day_digits(day, include_root) ==
    TensOnes(day) \o (IF include_root THEN <<reduce_to_single(day)>> ELSE <<>>)

\* lines 143-157
extract_month_digits(month) == TensOnes(month)

\* lines 159-174
extract_year_digits(year) == TensOnes(year % 100)

\* lines 176-206
build_natal_grid_digits(day, month, year, destiny) ==
    LET rt == reduce_to_single(day)
        include_psychic == ~(day < 10 \/ day % 10 = 0)
    IN  extract_day_digits(day, ~include_psychic)
        \o extract_month_digits(month)
        \o extract_year_digits(year)
        \o <<destiny>>
        \o (IF include_psychic THEN <<rt>> ELSE <<>>)

\* mutant: a digit that occurs several times is counted once
Count_distinct(digits, num) == IF \E i \in 1..Len(digits) : digits[i] = num THEN 1 ELSE 0

\* list.count(num)
Count(digits, num) == Cardinality({ i \in 1..Len(digits) : digits[i] = num })

\* str(num) * count
Repeat(num, count) == [k \in 1..count |-> Str(num)]

\* lines 208-224
build_natal_grid(digits) ==
    [num \in 1..9 |->
        IF Count(digits, num) > 0 THEN Repeat(num, Count(digits, num)) ELSE NoneStr]

\* mutant: the cells of 5 and 7 are exchanged
LO_SHU_POSITIONS_swapped ==
    [num \in 1..9 |->
        << <<0, 1>>, <<2, 0>>, <<0, 0>>, <<2, 2>>, <<1, 1>>,
           <<1, 0>>, <<1, 2>>, <<2, 1>>, <<0, 2>> >>[num]]

\* lines 19-29: (row, col) of each number
LO_SHU_POSITIONS ==
    [num \in 1..9 |->
        << <<0, 1>>, <<2, 0>>, <<0, 0>>, <<2, 2>>, <<1, 2>>,
           <<1, 0>>, <<1, 1>>, <<2, 1>>, <<0, 2>> >>[num]]

RECURSIVE PlaceCells(_, _, _)
PlaceCells(grid, num, result) ==
    IF num > 9 THEN result
    ELSE IF grid[num] # NoneStr
         THEN PlaceCells(grid, num + 1,
                  [result EXCEPT ![class_attrs.LO_SHU_POSITIONS[num][1] + 1]
                                  [class_attrs.LO_SHU_POSITIONS[num][2] + 1] = grid[num]])
         ELSE PlaceCells(grid, num + 1, result)

\* lines 226-238
get_natal_grid_array(grid) ==
    PlaceCells(grid, 1, << <<NoneStr, NoneStr, NoneStr>>,
                           <<NoneStr, NoneStr, NoneStr>>,
                           <<NoneStr, NoneStr, NoneStr>> >>)

\* lines 641-645: the natal grid copied, None as ""
CopyGrid(grid) ==
    [num \in 1..9 |-> IF grid[num] = NoneStr \/ grid[num] = <<>> THEN <<>> ELSE grid[num]]

\* lines 661-675: a number is appended to its own cell when it is in 1..9
AddToGrid(grid, n) ==
    IF n # None /\ 1 <= n /\ n <= 9
    THEN [grid EXCEPT ![n] = @ \o <<Str(n)>>]
    ELSE grid

\* lines 677-680: empty cells become None
FinalGrid(grid) == [num \in 1..9 |-> IF grid[num] = <<>> THEN NoneStr ELSE grid[num]]

\* mutant: the annual grid is the natal grid dict itself
AnnualGridObject_alias == "natal_grid_dict"

\* line 642: the dict named annual_grid_dict
AnnualGridObject == "annual_grid_dict"

\* lines 642-645: annual_grid_dict = {} filled from the natal grid
NewAnnualGrid(natal_grid_dict) ==
    [[natal_grid_dict |-> natal_grid_dict, annual_grid_dict |-> natal_grid_dict]
        EXCEPT ![AnnualGridObject] = CopyGrid(natal_grid_dict)]

\* lines 661-680: Mahadasha and Antardasha appended, empty cells to None;
\* [annual_grid_dict, natal_grid_dict] as the iteration leaves them
AnnualGridOf(objects, maha, antar) ==
    [annual_grid_dict |-> FinalGrid(AddToGrid(AddToGrid(objects[AnnualGridObject], maha), antar)),
     natal_grid_dict  |->
        [objects EXCEPT ![AnnualGridObject] =
            FinalGrid(AddToGrid(AddToGrid(objects[AnnualGridObject], maha), antar))].natal_grid_dict]

\* lines 618-684: the loop over the year table hands the same natal grid
\* dict to every iteration: [grids, natal_grid_dict]
RECURSIVE YearGridsFrom(_, _, _, _)
YearGridsFrom(natal_grid_dict, rows, i, grids) ==
    IF i > Len(rows)
    THEN [grids |-> grids, natal_grid_dict |-> natal_grid_dict]
    ELSE YearGridsFrom(
             AnnualGridOf(NewAnnualGrid(natal_grid_dict), rows[i][1], rows[i][2]).natal_grid_dict,
             rows, i + 1,
             Append(grids, get_natal_grid_array(
                 AnnualGridOf(NewAnnualGrid(natal_grid_dict), rows[i][1], rows[i][2]).annual_grid_dict)))

(***************************************************************************)
(* NumerologyService.generate_year_table and calculate_numerology          *)
(***************************************************************************)

\* line 363 / 609
YearsAhead(end_year, birth_year) ==
    LET span == end_year - birth_year + 10 IN IF span > 120 THEN span ELSE 120

\* lines 373-389: the entry of one year, or the ValueError of its review date
YearTableEntry(tl, year, month, day, rt) ==
    IF ProjectBirthdayRaises(year, month, day) THEN Raised("review_date")
    ELSE LET review_date == ProjectBirthday(year, month, day)
         IN  [year         |-> year,
              review_date  |-> IsoFormat(review_date),
              maha_number  |-> get_mahadasha_for_date(tl, review_date),
              antar_number |-> calculate_antardasha(year, day, month, review_date, rt)]

\* lines 371-389: one entry per year of start_year..end_year
YearTableRows(tl, sy, ey, month, day, rt) ==
    IF tl.raised THEN [raised |-> TRUE, table |-> <<>>]
    ELSE IF \E y \in sy..ey : ProjectBirthdayRaises(y, month, day)
    THEN [raised |-> TRUE, table |-> <<>>]
    ELSE [raised |-> FALSE,
          table  |-> [i \in 1..(ey - sy + 1) |->
                         YearTableEntry(tl.timeline, sy + i - 1, month, day, rt)]]

\* lines 362-369: the timeline that covers the year range
YearTableRange(dob, rt, month, day, sy, ey) ==
    YearTableRows(generate_mahadasha_timeline(dob, rt, YearsAhead(ey, dob.year)),
                  sy, ey, month, day, rt)

\* lines 349-391: [raised, table]
generate_year_table(dob, rt, month, day, start_year, end_year) ==
    YearTableRange(dob, rt, month, day,
                   IF start_year = None THEN dob.year ELSE start_year,
                   IF end_year = None THEN dob.year + 100 ELSE end_year)

\* lines 626-636: period_start or period_end of a row cannot be built
YearGridRaises(entry, month, day) ==
    \/ ProjectBirthdayRaises(entry.year, month, day)
    \/ ProjectBirthdayRaises(entry.year + 1, month, day)

\* lines 618-695: the YearEntry built from one row of the year table
YearGrid(entry, natal_grid_dict, mahadasha_timeline, month, day) ==
    IF YearGridRaises(entry, month, day) THEN Raised("year_grids") ELSE
    LET year_num == entry.year
        period_start == ProjectBirthday(year_num, month, day)
        period_end == AddDays(ProjectBirthday(year_num + 1, month, day), -1)
        maha == IF entry.maha_number = None
                THEN get_mahadasha_for_date(mahadasha_timeline,
                                            ProjectBirthday(year_num, month, day))
                ELSE entry.maha_number
        antar == entry.antar_number
        annual_grid_dict ==
            AnnualGridOf(NewAnnualGrid(natal_grid_dict), maha, antar).annual_grid_dict
    IN  [year         |-> year_num,
         start_date   |-> IsoFormat(period_start),
         end_date     |-> IsoFormat(period_end),
         start_year   |-> period_start.year,
         end_year     |-> period_end.year,
         maha_number  |-> maha,
         antar_number |-> antar,
         grid         |-> get_natal_grid_array(annual_grid_dict)]

\* mutant: a day past the end of the month is clamped to the last day
DobValid_clamped(year, month, day) ==
    /\ 1 <= year /\ year <= 9999
    /\ 1 <= month /\ month <= 12
    /\ 1 <= day /\ day <= 31

\* line 594 (endpoints line 105): dob_date = datetime(year, month, day) succeeds
DobValid(year, month, day) == ValidDate(year, month, day)

\* `x or default` for an optional integer
OrDefault(x, default) == IF x = None \/ x = 0 THEN default ELSE x

\* the natal grid as the response carries it: the cells that are not None
SparseGrid(natal_grid_dict) ==
    [k \in { n \in 1..9 : natal_grid_dict[n] # NoneStr } |-> natal_grid_dict[k]]

\* lines 609-712: the year grids and the returned dict
NumerologyResult(birthdate, day, month, year, rt, destiny, natal_grid_dict, mahadasha_timeline, year_table, start_year, end_year) ==
    IF mahadasha_timeline.raised THEN Raised("mahadasha_timeline")
    ELSE IF year_table.raised THEN Raised("year_table")
    ELSE IF \E i \in 1..Len(year_table.table) : YearGridRaises(year_table.table[i], month, day)
    THEN Raised("year_grids")
    ELSE [raised |-> FALSE,
          result |->
             [birthdate       |-> birthdate,
              day             |-> day,
              month           |-> month,
              year            |-> year,
              root_number     |-> rt,
              destiny_number  |-> destiny,
              natal_grid      |-> get_natal_grid_array(natal_grid_dict),
              natal_grid_dict |-> SparseGrid(natal_grid_dict),
              year_grids      |->
                 [i \in 1..Len(year_table.table) |->
                     YearGrid(year_table.table[i], natal_grid_dict,
                              mahadasha_timeline.timeline, month, day)],
              start_year      |-> OrDefault(start_year, year),
              end_year        |-> OrDefault(end_year, year + 100)]]

\* lines 603-615: natal grid, Mahadasha timeline and year table
NumerologyOfNumbers(birthdate, day, month, year, rt, destiny, start_year, end_year) ==
    NumerologyResult(birthdate, day, month, year, rt, destiny,
        build_natal_grid(build_natal_grid_digits(day, month, year, destiny)),
        generate_mahadasha_timeline(Datetime(year, month, day), rt,
            YearsAhead(OrDefault(end_year, year + 100), year)),
        generate_year_table(Datetime(year, month, day), rt, month, day,
                            start_year, end_year),
        start_year, end_year)

\* lines 594-600: dob_date and the core numbers
NumerologyOfDate(birthdate, day, month, year, rt, start_year, end_year) ==
    IF ~DobValid(year, month, day) THEN Raised("dob_date")
    ELSE NumerologyOfNumbers(birthdate, day, month, year, rt,
             calculate_destiny_number(rt, calculate_month_number(month),
                                      calculate_year_number(year)),
             start_year, end_year)

\* lines 586-592: the three parts of the birthdate as integers
NumerologyOfParts(birthdate, parts, start_year, end_year) ==
    IF Len(parts) # 3 THEN Raised("format")
    ELSE IF \E i \in 1..3 : ~ParseInt(parts[i]).ok THEN Raised("int")
    ELSE NumerologyOfDate(birthdate, ParseInt(parts[1]).value, ParseInt(parts[2]).value,
                          ParseInt(parts[3]).value,
                          calculate_root_number(ParseInt(parts[1]).value),
                          start_year, end_year)

\* lines 571-712: [raised, raised_at] or [raised, result]
calculate_numerology(birthdate, start_year, end_year) ==
    NumerologyOfParts(birthdate, Split(birthdate, "/"), start_year, end_year)

(***************************************************************************)
(* Period grids: PratyantarService.build_period_grid and                   *)
(* NumerologyService.generate_monthly_grids                                *)
(***************************************************************************)

\* lines 410-417
calculate_personal_year(birth_month, birth_day, target_year) ==
    reduce_to_single(birth_month + birth_day + reduce_to_single(target_year))

\* lines 419-425
calculate_personal_month(personal_year, calendar_month) ==
    reduce_to_single(personal_year + calendar_month)

\* lines 460-464: the Basic Numbers appended one after the other
RECURSIVE AddBasicsToGrid(_, _, _)
AddBasicsToGrid(base_grid, basic_numbers, i) ==
    IF i > Len(basic_numbers) THEN base_grid
    ELSE AddBasicsToGrid(AddToGrid(base_grid, basic_numbers[i]), basic_numbers, i + 1)

\* lines 427-466: natal + Mahadasha + Personal Year + Basic Numbers, empty
\* cells as ""
build_mahadasha_base_grid(natal_grid, maha, personal_year, basic_numbers) ==
    AddBasicsToGrid(AddToGrid(AddToGrid(CopyGrid(natal_grid), maha), personal_year),
                    basic_numbers, 1)

\* {}: the dict with no key
EmptyDict == [k \in {} |-> 0]

\* dict.get(k, default)
DictGet(d, k, default) == IF k \in DOMAIN d THEN d[k] ELSE default

\* d[k] = d.get(k, 0) + 1
DictInc(d, k) == [x \in (DOMAIN d) \cup {k} |-> IF x = k THEN DictGet(d, k, 0) + 1 ELSE d[x]]

\* mutant: counts is the dict passed in, not a copy of it
CountsObject_alias == "annual_grid_counts"

\* pratyantar_service line 94: the dict named counts
CountsObject == "counts"

\* pratyantar_service line 94: counts = annual_grid_counts.copy()
CopyAnnualCounts(annual_grid_counts) ==
    [annual_grid_counts |-> annual_grid_counts, counts |-> annual_grid_counts]

\* pratyantar_service lines 97-98: +1 for the Pratyantar number
AddPratyantar(objects, pratyantar) ==
    IF pratyantar # None /\ pratyantar # 0 /\ 1 <= pratyantar /\ pratyantar <= 9
    THEN [objects EXCEPT ![CountsObject] = DictInc(@, pratyantar)]
    ELSE objects

\* pratyantar_service lines 103-107: the cell strings of the counts
GridOfCounts(counts) ==
    [num \in 1..9 |->
        IF DictGet(counts, num, 0) > 0 THEN Repeat(num, DictGet(counts, num, 0))
        ELSE NoneStr]

\* pratyantar_service lines 79-107: the grid returned and the dict passed in
\* as the call leaves it
PeriodGridCall(objects) ==
    [grid |-> GridOfCounts(objects[CountsObject]),
     annual_grid_counts |-> objects.annual_grid_counts]

\* pratyantar_service lines 79-107
build_period_grid(annual_grid_counts, pratyantar) ==
    PeriodGridCall(AddPratyantar(CopyAnnualCounts(annual_grid_counts), pratyantar)).grid

\* lines 537-553: the loop over the periods hands the same dict to every
\* build_period_grid call: [grids, annual_grid_counts]
RECURSIVE PeriodGridsFrom(_, _, _, _)
PeriodGridsFrom(annual_grid_counts, pratyantars, i, grids) ==
    IF i > Len(pratyantars)
    THEN [grids |-> grids, annual_grid_counts |-> annual_grid_counts]
    ELSE PeriodGridsFrom(
             PeriodGridCall(AddPratyantar(CopyAnnualCounts(annual_grid_counts),
                                          pratyantars[i])).annual_grid_counts,
             pratyantars, i + 1,
             Append(grids,
                    PeriodGridCall(AddPratyantar(CopyAnnualCounts(annual_grid_counts),
                                                 pratyantars[i])).grid))

\* strftime("%B")
MonthName(m) ==
    <<"January", "February", "March", "April", "May", "June", "July",
      "August", "September", "October", "November", "December">>[m]

\* lines 537-567: the entry of one period
MonthlyGrid(period, period_index, tl, annual_grid_counts, month, day, target_year) ==
    LET pratyantar == period.pratyantar
        period_start_date == period.start_date
        personal_year == calculate_personal_year(month, day, target_year)
    IN  [year           |-> target_year,
         month          |-> period_index,
         month_name     |-> MonthName(period_start_date.month),
         start_date     |-> IsoFormat(period_start_date),
         end_date       |-> IsoFormat(period.end_date),
         date_range     |-> [from |-> period.start, to |-> period.end],
         maha_number    |-> get_mahadasha_for_date(tl, period_start_date),
         antar_number   |-> pratyantar,
         personal_year  |-> personal_year,
         personal_month |-> calculate_personal_month(personal_year,
                                                     period_start_date.month),
         grid           |-> get_natal_grid_array(
                                build_period_grid(annual_grid_counts, pratyantar))]

\* lines 537-567: one entry per pratyantar period
MonthlyGridRows(ps, tl, annual_grid_counts, month, day, target_year) ==
    [i \in 1..Len(ps) |->
        MonthlyGrid(ps[i], i, tl, annual_grid_counts, month, day, target_year)]

\* lines 520-535: the annual grid as counts per number
AnnualGridCounts(annual_grid_dict) == [num \in 1..9 |-> Len(annual_grid_dict[num])]

\* lines 497-535: Mahadasha and Antardasha of the year's birthday, the annual
\* grid and the pratyantar periods of the year
MonthlyGridsOfYear(tl, year_birthday, dob, rt, month, day, target_year, natal_grid_dict) ==
    IF PratyantarPeriodsRaise(target_year, day, month) THEN Raised("pratyantar_periods") ELSE
    MonthlyGridRows(
        generate_pratyantar_periods(target_year, day, month, dob.year, rt),
        tl,
        AnnualGridCounts(
            AddToGrid(AddToGrid(CopyGrid(natal_grid_dict),
                                get_mahadasha_for_date(tl, year_birthday)),
                      calculate_antardasha(target_year, day, month, year_birthday, rt))),
        month, day, target_year)

\* lines 492-569: the timeline is built first; [raised, grids]
MonthlyGridsOfTimeline(tl, dob, rt, month, day, target_year, natal_grid_dict) ==
    IF tl.raised THEN [raised |-> TRUE, grids |-> <<>>]
    ELSE IF PratyantarPeriodsRaise(target_year, day, month)
    THEN [raised |-> TRUE, grids |-> <<>>]
    ELSE [raised |-> FALSE,
          grids  |-> MonthlyGridsOfYear(tl.timeline,
                                        ProjectBirthday(target_year, month, day),
                                        dob, rt, month, day, target_year,
                                        natal_grid_dict)]

\* lines 469-569: [raised, grids]
generate_monthly_grids(dob, rt, month, day, target_year, natal_grid_dict) ==
    MonthlyGridsOfTimeline(generate_mahadasha_timeline(dob, rt, 120),
                           dob, rt, month, day, target_year, natal_grid_dict)

(***************************************************************************)
(* PratyantarService.count_digits and build_mahadasha_base_counts.         *)
(* A dict is a function on the keys it holds; the dicts a call works on    *)
(* are objects named by the variables bound to them.                       *)
(***************************************************************************)

\* pratyantar_service lines 35-37: the loop over numbers
RECURSIVE CountDigitsFrom(_, _, _)
CountDigitsFrom(numbers, i, counts) ==
    IF i > Len(numbers) THEN counts
    ELSE IF 1 <= numbers[i] /\ numbers[i] <= 9
         THEN CountDigitsFrom(numbers, i + 1, DictInc(counts, numbers[i]))
         ELSE CountDigitsFrom(numbers, i + 1, counts)

\* pratyantar_service lines 24-38
count_digits(numbers) == CountDigitsFrom(numbers, 1, EmptyDict)

\* pratyantar_service line 62
OVERLAY_ACTIVE_NUMBERS == {1, 2, 3, 4, 5, 7, 9}

\* mutant: base is the natal_counts object itself (no copy)
BaseObject_alias == "natal_counts"

\* pratyantar_service line 61: base is bound to a copy, an object of its own
BaseObject == "base"

\* pratyantar_service line 61: the objects after base = natal_counts.copy()
CopyNatalCounts(natal_counts) == [natal_counts |-> natal_counts, base |-> natal_counts]

\* pratyantar_service lines 65-66: Mahadasha always, when it is in 1..9
AddMahadasha(objects, maha) ==
    IF 1 <= maha /\ maha <= 9
    THEN [objects EXCEPT ![BaseObject] = DictInc(@, maha)]
    ELSE objects

\* mutant: the Personal Year is added whatever number it is
AddPersonalYear_unfiltered(objects, personal_year) ==
    IF 1 <= personal_year /\ personal_year <= 9
    THEN [objects EXCEPT ![BaseObject] = DictInc(@, personal_year)]
    ELSE objects

\* pratyantar_service lines 69-70: Personal Year if overlay-active
AddPersonalYear(objects, personal_year) ==
    IF 1 <= personal_year /\ personal_year <= 9 /\ personal_year \in OVERLAY_ACTIVE_NUMBERS
    THEN [objects EXCEPT ![BaseObject] = DictInc(@, personal_year)]
    ELSE objects

\* pratyantar_service lines 73-75: each Basic Number if overlay-active
RECURSIVE AddBasicNumbers(_, _, _)
AddBasicNumbers(objects, basic_numbers, i) ==
    IF i > Len(basic_numbers) THEN objects
    ELSE IF /\ 1 <= basic_numbers[i] /\ basic_numbers[i] <= 9
            /\ basic_numbers[i] \in OVERLAY_ACTIVE_NUMBERS
         THEN AddBasicNumbers([objects EXCEPT ![BaseObject] = DictInc(@, basic_numbers[i])],
                              basic_numbers, i + 1)
         ELSE AddBasicNumbers(objects, basic_numbers, i + 1)

\* pratyantar_service line 77: return base; natal_counts as the call leaves it
ReturnBase(objects) == [base |-> objects[BaseObject], natal_counts |-> objects.natal_counts]

\* pratyantar_service lines 40-77: [base, natal_counts]
build_mahadasha_base_counts(natal_counts, maha, personal_year, basic_numbers) ==
    ReturnBase(AddBasicNumbers(AddPersonalYear(AddMahadasha(CopyNatalCounts(natal_counts),
                                                            maha),
                                               personal_year),
                               basic_numbers, 1))

(***************************************************************************)
(* The endpoints: Operation A (/calculate), Operation B (/monthly-grids)   *)
(***************************************************************************)

\* a response that carries no result, and the statement that failed
ErrorResponse(status, where) == [status |-> status, raised_at |-> where]

\* endpoints lines 84-92: the result, or 400 for a ValueError
CalculateResponse(r) ==
    IF r.raised THEN ErrorResponse(400, r.raised_at)
    ELSE [status |-> 200, raised_at |-> "", body |-> r.result]

\* endpoints lines 16-44 and 76-92
calculate_endpoint(birthdate, start_year, end_year) ==
    IF ~validate_birthdate(birthdate) THEN ErrorResponse(422, "validate_birthdate")
    ELSE IF ~validate_year_range(start_year) \/ ~validate_year_range(end_year)
    THEN ErrorResponse(422, "validate_year_range")
    ELSE CalculateResponse(calculate_numerology(birthdate, start_year, end_year))

\* endpoints lines 119-133: the grids, or 400 for a ValueError
MonthlyGridsResponse(birthdate, target_year, monthly_grids) ==
    IF monthly_grids.raised THEN ErrorResponse(400, "mahadasha_timeline")
    ELSE [status    |-> 200,
          raised_at |-> "",
          body      |-> [birthdate     |-> birthdate,
                         year          |-> target_year,
                         monthly_grids |-> monthly_grids.grids]]

\* endpoints lines 108-117: core numbers, natal grid, monthly grids
MonthlyGridsOfNumbers(birthdate, day, month, year, rt, destiny, target_year) ==
    MonthlyGridsResponse(birthdate, target_year,
        generate_monthly_grids(Datetime(year, month, day), rt, month, day, target_year,
            build_natal_grid(build_natal_grid_digits(day, month, year, destiny))))

\* endpoints lines 105-111: dob_date and the core numbers
MonthlyGridsOfDate(birthdate, day, month, year, rt, target_year) ==
    IF ~DobValid(year, month, day) THEN ErrorResponse(400, "dob_date")
    ELSE MonthlyGridsOfNumbers(birthdate, day, month, year, rt,
             calculate_destiny_number(rt, calculate_month_number(month),
                                      calculate_year_number(year)),
             target_year)

\* endpoints lines 101-104: the three parts of the birthdate as integers
MonthlyGridsOfParts(birthdate, parts, target_year) ==
    MonthlyGridsOfDate(birthdate, ParseInt(parts[1]).value, ParseInt(parts[2]).value,
                       ParseInt(parts[3]).value,
                       calculate_root_number(ParseInt(parts[1]).value), target_year)

\* endpoints lines 47-73 and 95-133
monthly_grids_endpoint(birthdate, target_year) ==
    IF ~validate_birthdate(birthdate) THEN ErrorResponse(422, "validate_birthdate")
    ELSE IF ~validate_year(target_year) THEN ErrorResponse(422, "validate_year")
    ELSE MonthlyGridsOfParts(birthdate, Split(birthdate, "/"), target_year)

(***************************************************************************)
(* State                                                                   *)
(***************************************************************************)

VARIABLES
    pc,             \* position of the running call ("service": calls on the singleton)
    dob_date,       \* generate_mahadasha_timeline: argument
    root,           \* generate_mahadasha_timeline: argument
    years_ahead,    \* generate_mahadasha_timeline: argument
    end_date,       \* generate_mahadasha_timeline: the horizon
    timeline,       \* generate_mahadasha_timeline: periods emitted so far
    current_date,   \* generate_mahadasha_timeline: loop state
    current_dasha,  \* generate_mahadasha_timeline: loop state
    query_date,     \* get_mahadasha_for_date: argument
    lookup_result,  \* get_mahadasha_for_date: return value
    praty_year,     \* generate_pratyantar_periods: argument year
    praty_day,      \* generate_pratyantar_periods: argument day
    praty_month,    \* generate_pratyantar_periods: argument month
    praty_root,     \* generate_pratyantar_periods: argument dob_root
    next_birthday,  \* generate_pratyantar_periods: the loop bound
    periods,        \* generate_pratyantar_periods: periods emitted so far
    pratyantar_multi, \* generate_pratyantar_periods: loop state
    current_start,  \* generate_pratyantar_periods: loop state
    clamp_taken,    \* generate_pratyantar_periods: the safety clamp branch ran
    request,        \* the request of the last endpoint call
    response,       \* the response of the last endpoint call
    fn_call,        \* a service function called on its own: name and arguments
    fn_result,      \* the value that call returned
    pratyantar_service_field, \* NumerologyService._pratyantar_service of the singleton
    heap,           \* the PratyantarService objects constructed so far
    calls,          \* per caller: position, request, object obtained, response
    started,        \* number of endpoint calls started on the singleton
    first_result    \* per Operation A request: the first response and the field then

pratyVars == <<praty_year, praty_day, praty_month, praty_root, next_birthday,
               periods, pratyantar_multi, current_start, clamp_taken>>

mahaVars == <<dob_date, root, years_ahead, end_date, timeline, current_date, current_dasha>>

lookupVars == <<query_date, lookup_result>>

opVars == <<request, response>>

funcVars == <<fn_call, fn_result>>

svcVars == <<class_attrs, pratyantar_service_field, heap, calls, started, first_result>>

vars == <<pc, mahaVars, lookupVars, pratyVars, opVars, funcVars, svcVars>>

Init ==
    /\ class_attrs = [LO_SHU_POSITIONS |-> LO_SHU_POSITIONS,
                      WEEKDAY_PLANET_MAP |-> WEEKDAY_PLANET_MAP]
    /\ pc = "idle"
    /\ dob_date = NoDate
    /\ root = 1
    /\ years_ahead = 0
    /\ end_date = NoDate
    /\ timeline = <<>>
    /\ current_date = NoDate
    /\ current_dasha = 1
    /\ query_date = NoDate
    /\ lookup_result = None
    /\ praty_year = 0
    /\ praty_day = 1
    /\ praty_month = 1
    /\ praty_root = None
    /\ next_birthday = NoDate
    /\ periods = <<>>
    /\ pratyantar_multi = 1
    /\ current_start = NoDate
    /\ clamp_taken = FALSE
    /\ request = [op |-> "none"]
    /\ response = [status |-> 0, raised_at |-> ""]
    /\ fn_call = [fn |-> "none"]
    /\ fn_result = None
    /\ pratyantar_service_field = None
    /\ heap = <<>>
    /\ calls = [c \in Callers |-> IdleCall]
    /\ started = 0
    /\ first_result = EmptyDict

(***************************************************************************)
(* Actions: generate_mahadasha_timeline, step by step                      *)
(***************************************************************************)

\* lines 246-250: entry; the horizon is computed or datetime raises
CallMahadasha(dob, rt, ya) ==
    /\ pc = "idle"
    /\ dob_date' = dob
    /\ root' = rt
    /\ years_ahead' = ya
    /\ timeline' = <<>>
    /\ current_date' = dob
    /\ current_dasha' = rt
    /\ IF HorizonValid(dob, ya)
       THEN end_date' = Horizon(dob, ya) /\ pc' = "maha_loop"
       ELSE end_date' = end_date /\ pc' = "maha_raised"
    /\ UNCHANGED <<lookupVars, pratyVars, opVars, funcVars, svcVars>>

\* lines 252-274: one loop iteration
MahaIterate ==
    /\ pc = "maha_loop"
    /\ MahaGuard(current_date, end_date)
    /\ LET b == MahaBody(current_date, current_dasha, end_date)
       IN  IF b.raised
           THEN /\ pc' = "maha_raised"
                /\ UNCHANGED <<timeline, current_date, current_dasha>>
           ELSE /\ pc' = pc
                /\ timeline' = Append(timeline, b.period)
                /\ current_date' = b.next_date
                /\ current_dasha' = b.next_dasha
    /\ UNCHANGED <<dob_date, root, years_ahead, end_date, lookupVars, pratyVars, opVars, funcVars, svcVars>>

\* line 276: the loop guard fails and the timeline is returned
MahaReturn ==
    /\ pc = "maha_loop"
    /\ ~MahaGuard(current_date, end_date)
    /\ pc' = "maha_returned"
    /\ UNCHANGED <<mahaVars, lookupVars, pratyVars, opVars, funcVars, svcVars>>

\* the query datetimes tried on a returned timeline: the birthday of every year
\* around the timeline, the day before and the day after, at any time of day
QueryDates ==
    { [year |-> d.year, month |-> d.month, day |-> d.day, hour |-> h] :
        d \in { AddDays(Datetime(y, dob_date.month,
                                 IF ValidDate(y, dob_date.month, dob_date.day)
                                 THEN dob_date.day ELSE 28), k) :
                  y \in (dob_date.year - 1)..(dob_date.year + years_ahead + 1),
                  k \in {-1, 0, 1} },
        h \in QueryHours }

\* lines 278-309: a lookup on the returned timeline
Lookup(q) ==
    /\ pc = "maha_returned"
    /\ query_date' = q
    /\ lookup_result' = get_mahadasha_for_date(timeline, q)
    /\ pc' = "lookup_done"
    /\ UNCHANGED <<mahaVars, pratyVars, opVars, funcVars, svcVars>>

NextMaha ==
    \/ \E dob \in DobDates, rt \in Roots, ya \in YearsAheadSet : CallMahadasha(dob, rt, ya)
    \/ MahaIterate
    \/ MahaReturn
    \/ \E q \in QueryDates : Lookup(q)

(***************************************************************************)
(* Actions: generate_pratyantar_periods, step by step                      *)
(***************************************************************************)

\* lines 124-147: entry; the seed and the two birthdays are computed, or a
\* birthday outside datetime's years raises ValueError
CallPratyantar(y, d, m, rt) ==
    /\ pc = "idle"
    /\ praty_year' = y
    /\ praty_day' = d
    /\ praty_month' = m
    /\ praty_root' = rt
    /\ IF PratyantarPeriodsRaise(y, d, m)
       THEN /\ pc' = "praty_raised"
            /\ UNCHANGED <<pratyantar_multi, current_start, next_birthday, periods,
                           clamp_taken>>
       ELSE /\ pratyantar_multi' =
                  calculate_antardasha(y, d, m, ProjectBirthday(y, m, d), rt)
            /\ current_start' = ProjectBirthday(y, m, d)
            /\ next_birthday' = ProjectBirthday(y + 1, m, d)
            /\ periods' = <<>>
            /\ clamp_taken' = FALSE
            /\ pc' = "praty_loop"
    /\ UNCHANGED <<mahaVars, lookupVars, opVars, funcVars, svcVars>>

\* lines 148-195: the loop guard, then one iteration or the return
PratyIterate ==
    /\ pc = "praty_loop"
    /\ IF ~PratyGuard(current_start, next_birthday)
       THEN /\ pc' = "praty_returned"
            /\ UNCHANGED <<periods, pratyantar_multi, current_start, clamp_taken>>
       ELSE LET b == PratyBody(pratyantar_multi, current_start, next_birthday)
            IN  /\ clamp_taken' = (clamp_taken \/ b.clamped)
                /\ IF b.stop
                   THEN /\ pc' = "praty_returned"
                        /\ UNCHANGED <<periods, pratyantar_multi, current_start>>
                   ELSE /\ pc' = pc
                        /\ periods' = Append(periods, b.period)
                        /\ current_start' = b.next_start
                        /\ pratyantar_multi' = b.next_multi
    /\ UNCHANGED <<praty_year, praty_day, praty_month, praty_root, next_birthday,
                   mahaVars, lookupVars, opVars, funcVars, svcVars>>

NextPraty ==
    \/ \E y \in TargetYears, dm \in DayMonths, rt \in Roots \cup {None} :
          CallPratyantar(y, dm[1], dm[2], rt)
    \/ PratyIterate

(***************************************************************************)
(* Actions: the two endpoints, each call as a whole                        *)
(***************************************************************************)

\* mutant: the PratyantarService is constructed without its NumerologyService
NewPratyantarService_unbound(numerology_service) == [numerology_service |-> "unbound"]

\* pratyantar_service.py lines 15-22: PratyantarService(numerology_service)
NewPratyantarService(numerology_service) == [numerology_service |-> numerology_service]

\* the call gets as far as line 530: nothing before it raised
ReachesPratyantarService(r) == monthly_grids_endpoint(r.birthdate, r.year).status = 200

\* lines 46-52: the lazy property pratyantar_service read by a call that runs
\* alone: the PratyantarService is constructed and kept at the first read
ReadPratyantarService ==
    IF pratyantar_service_field = None
    THEN /\ heap' = Append(heap, NewPratyantarService(Service))
         /\ pratyantar_service_field' = Len(heap) + 1
    ELSE UNCHANGED <<heap, pratyantar_service_field>>

\* mutant: the call re-keys the shared weekday table in place to Monday = 0
ClassAttrsAfterCall_rekeyed(attrs) ==
    [attrs EXCEPT !.WEEKDAY_PLANET_MAP =
        [w \in 0..6 |-> attrs.WEEKDAY_PLANET_MAP[(w + 1) % 7]]]

\* lines 235 and 326: the only uses of the class tables subscript them, and
\* no statement of either operation assigns, deletes or mutates one (lines 44
\* and 51 assign _pratyantar_service only): a call leaves them as it found them
ClassAttrsAfterCall(attrs) == attrs

\* POST /calculate
OperationA(birthdate, start_year, end_year) ==
    /\ pc = "idle"
    /\ request' = [op |-> "A", birthdate |-> birthdate,
                   start_year |-> start_year, end_year |-> end_year]
    /\ response' = calculate_endpoint(birthdate, start_year, end_year)
    /\ class_attrs' = ClassAttrsAfterCall(class_attrs)
    /\ pc' = "opA_done"
    /\ UNCHANGED <<mahaVars, lookupVars, pratyVars, funcVars,
                   pratyantar_service_field, heap, calls, started, first_result>>

\* POST /monthly-grids; line 530 reads the lazy property once the timeline and
\* the annual grid are built
OperationB(birthdate, target_year) ==
    /\ pc = "idle"
    /\ request' = [op |-> "B", birthdate |-> birthdate, year |-> target_year]
    /\ response' = monthly_grids_endpoint(birthdate, target_year)
    /\ IF ReachesPratyantarService([birthdate |-> birthdate, year |-> target_year])
       THEN ReadPratyantarService
       ELSE UNCHANGED <<heap, pratyantar_service_field>>
    /\ class_attrs' = ClassAttrsAfterCall(class_attrs)
    /\ pc' = "opB_done"
    /\ UNCHANGED <<mahaVars, lookupVars, pratyVars, funcVars, calls, started, first_result>>

\* birthdate strings that int() reads as 26/02/1982 although they are not
\* written 'DD/MM/YYYY': a trailing newline, a day in full-width digits
LenientBirthdates ==
    { BirthdateText(<<26, 2, 1982>>) \o <<"\n">>,
      <<"U+FF12", "U+FF16">> \o SubSeq(BirthdateText(<<26, 2, 1982>>), 3, 10) }

BirthdateStrings ==
    { BirthdateText(b) : b \in Birthdates } \cup MalformedBirthdates \cup LenientBirthdates

NextOps ==
    \/ \E b \in BirthdateStrings, sy \in StartYears, ey \in EndYears : OperationA(b, sy, ey)
    \/ \E b \in BirthdateStrings, y \in TargetYears \cup {2201} : OperationB(b, y)

(***************************************************************************)
(* Actions: service functions called on their own, each call as a whole    *)
(***************************************************************************)

\* lines 597-600: the four core numbers
CoreNumbers(rt, month_num, year_num) ==
    [root |-> rt, month_number |-> month_num, year_number |-> year_num,
     destiny |-> calculate_destiny_number(rt, month_num, year_num)]

\* lines 603-604: the digit multiset and the grid built from it
NatalGrid(digits) == [digits |-> digits, grid |-> build_natal_grid(digits)]

\* the destiny of a <<day, month, year>>
DestinyOf(b) ==
    calculate_destiny_number(calculate_root_number(b[1]), calculate_month_number(b[2]),
                             calculate_year_number(b[3]))

\* grid dicts with each cell None or its number up to MaxCellCount times
GridDicts ==
    { [n \in 1..9 |-> IF c[n] = 0 THEN NoneStr ELSE Repeat(n, c[n])] :
          c \in [1..9 -> 0..MaxCellCount] }

\* natal counts as test_period.py builds them, and the empty dict
NatalCountDicts ==
    {EmptyDict} \cup
    { count_digits(build_natal_grid_digits(b[1], b[2], b[3], DestinyOf(b))) :
          b \in { x \in Birthdates : ValidDate(x[3], x[2], x[1]) } }

\* reduce_to_single(number)
CallReduceToSingle ==
    /\ pc = "idle"
    /\ \E number \in 0..MaxNumber :
          /\ fn_call' = [fn |-> "reduce_to_single", number |-> number]
          /\ fn_result' = reduce_to_single(number)
    /\ pc' = "fn_done"
    /\ UNCHANGED <<mahaVars, lookupVars, pratyVars, opVars, svcVars>>

\* calculate_root_number .. calculate_destiny_number of a valid date
CallCoreNumbers ==
    /\ pc = "idle"
    /\ \E b \in { x \in DayMonthYears : ValidDate(x[3], x[2], x[1]) } :
          /\ fn_call' = [fn |-> "core_numbers", day |-> b[1], month |-> b[2], year |-> b[3]]
          /\ fn_result' = CoreNumbers(calculate_root_number(b[1]),
                                      calculate_month_number(b[2]),
                                      calculate_year_number(b[3]))
    /\ pc' = "fn_done"
    /\ UNCHANGED <<mahaVars, lookupVars, pratyVars, opVars, svcVars>>

\* build_natal_grid(build_natal_grid_digits(day, month, year, destiny))
CallNatalGrid ==
    /\ pc = "idle"
    /\ \E b \in DayMonthYears :
          /\ fn_call' = [fn |-> "natal_grid", day |-> b[1], month |-> b[2], year |-> b[3],
                         destiny |-> DestinyOf(b)]
          /\ fn_result' = NatalGrid(build_natal_grid_digits(b[1], b[2], b[3], DestinyOf(b)))
    /\ pc' = "fn_done"
    /\ UNCHANGED <<mahaVars, lookupVars, pratyVars, opVars, svcVars>>

\* get_natal_grid_array(grid)
CallGridArray ==
    /\ pc = "idle"
    /\ \E grid \in GridDicts :
          /\ fn_call' = [fn |-> "get_natal_grid_array", grid |-> grid]
          /\ fn_result' = get_natal_grid_array(grid)
    /\ pc' = "fn_done"
    /\ UNCHANGED <<mahaVars, lookupVars, pratyVars, opVars, svcVars>>

\* calculate_antardasha(year, day, month, review_date, dob_root), the review
\* date on the birthday of the year or up to six days after it
CallAntardasha ==
    /\ pc = "idle"
    /\ \E y \in TargetYears, dm \in DayMonths, rt \in Roots \cup {None}, k \in WeekdayOffsets :
          /\ fn_call' = [fn |-> "calculate_antardasha", year |-> y, day |-> dm[1],
                         month |-> dm[2], dob_root |-> rt,
                         review_date |-> AddDays(ProjectBirthday(y, dm[2], dm[1]), k)]
          /\ fn_result' = calculate_antardasha(y, dm[1], dm[2],
                              AddDays(ProjectBirthday(y, dm[2], dm[1]), k), rt)
    /\ pc' = "fn_done"
    /\ UNCHANGED <<mahaVars, lookupVars, pratyVars, opVars, svcVars>>

\* build_mahadasha_base_counts(natal_counts, maha, personal_year, basic_numbers)
CallBaseCounts ==
    /\ pc = "idle"
    /\ \E natal_counts \in NatalCountDicts, maha \in OverlayNumbers,
          personal_year \in OverlayNumbers, basic_numbers \in BasicNumberLists :
          /\ fn_call' = [fn |-> "build_mahadasha_base_counts", natal_counts |-> natal_counts,
                         maha |-> maha, personal_year |-> personal_year,
                         basic_numbers |-> basic_numbers]
          /\ fn_result' = build_mahadasha_base_counts(natal_counts, maha, personal_year,
                                                      basic_numbers)
    /\ pc' = "fn_done"
    /\ UNCHANGED <<mahaVars, lookupVars, pratyVars, opVars, svcVars>>

\* the natal grid dicts of the birthdates of the pool
NatalGridDicts ==
    { build_natal_grid(build_natal_grid_digits(b[1], b[2], b[3], DestinyOf(b))) :
          b \in { x \in Birthdates : ValidDate(x[3], x[2], x[1]) } }

\* the Pratyantar numbers of the nine periods of a year, one list per
\* Antardasha the year can start with
PratyantarCycles == { [i \in 1..9 |-> ((a + i - 2) % 9) + 1] : a \in 1..9 }

\* <<maha, antar>> of a row of the year table
YearRows == {None, 1, 8} \X {1, 8, 9}

\* year tables of one or two rows
YearRowLists == { <<r>> : r \in YearRows } \cup { <<r, q>> : r, q \in YearRows }

\* lines 516-553: the period grids of a year built on its annual counts, each
\* by build_period_grid of self.pratyantar_service (line 550)
CallPeriodGrids ==
    /\ pc = "idle"
    /\ \E natal_grid_dict \in NatalGridDicts, maha \in {None, 7}, pratyantars \in PratyantarCycles :
          /\ fn_call' = [fn |-> "period_grids",
                         annual_grid_counts |->
                             AnnualGridCounts(AddToGrid(CopyGrid(natal_grid_dict), maha)),
                         pratyantars |-> pratyantars]
          /\ fn_result' = PeriodGridsFrom(
                              AnnualGridCounts(AddToGrid(CopyGrid(natal_grid_dict), maha)),
                              pratyantars, 1, <<>>)
    /\ ReadPratyantarService
    /\ pc' = "fn_done"
    /\ UNCHANGED <<mahaVars, lookupVars, pratyVars, opVars,
                   class_attrs, calls, started, first_result>>

\* lines 618-684: the year grids built on the natal grid dict
CallYearGrids ==
    /\ pc = "idle"
    /\ \E natal_grid_dict \in NatalGridDicts, rows \in YearRowLists :
          /\ fn_call' = [fn |-> "year_grids", natal_grid_dict |-> natal_grid_dict,
                         rows |-> rows]
          /\ fn_result' = YearGridsFrom(natal_grid_dict, rows, 1, <<>>)
    /\ pc' = "fn_done"
    /\ UNCHANGED <<mahaVars, lookupVars, pratyVars, opVars, svcVars>>

\* the natal digits of the birthdates of the pool
NatalDigitLists ==
    { build_natal_grid_digits(b[1], b[2], b[3], DestinyOf(b)) :
          b \in { x \in Birthdates : ValidDate(x[3], x[2], x[1]) } }

\* build_mahadasha_base_grid and build_mahadasha_base_counts on the same
\* natal digits, Mahadasha, Personal Year and Basic Numbers
CallBaseOverlays ==
    /\ pc = "idle"
    /\ \E digits \in NatalDigitLists, maha \in {6, 7},
          personal_year \in OverlayNumbers, basic_numbers \in BasicNumberLists :
          /\ fn_call' = [fn |-> "base_overlays", natal_digits |-> digits, maha |-> maha,
                         personal_year |-> personal_year, basic_numbers |-> basic_numbers]
          /\ fn_result' =
                 [base_grid   |-> build_mahadasha_base_grid(build_natal_grid(digits), maha,
                                      personal_year, basic_numbers),
                  base_counts |-> build_mahadasha_base_counts(count_digits(digits), maha,
                                      personal_year, basic_numbers).base]
    /\ pc' = "fn_done"
    /\ UNCHANGED <<mahaVars, lookupVars, pratyVars, opVars, svcVars>>

NextFunctions ==
    \/ CallReduceToSingle
    \/ CallCoreNumbers
    \/ CallNatalGrid
    \/ CallGridArray
    \/ CallAntardasha
    \/ CallBaseCounts
    \/ CallPeriodGrids
    \/ CallYearGrids
    \/ CallBaseOverlays

(***************************************************************************)
(* Actions: concurrent endpoint calls on the module-level NumerologyService *)
(* and the lazy construction of its PratyantarService                      *)
(***************************************************************************)

\* Operation A requests sent to the singleton
ServiceRequestsA ==
    { [op |-> "A", birthdate |-> BirthdateText(<<26, 2, 1982>>), start_year |-> 2024, end_year |-> 2025],
      [op |-> "A", birthdate |-> BirthdateText(<<1, 3, 2004>>), start_year |-> None, end_year |-> 2005] }

\* Operation B requests sent to the singleton
ServiceRequestsB ==
    { [op |-> "B", birthdate |-> BirthdateText(<<26, 2, 1982>>), year |-> 2024],
      [op |-> "B", birthdate |-> BirthdateText(<<1, 3, 2004>>), year |-> 2025],
      [op |-> "B", birthdate |-> BirthdateText(<<32, 1, 1990>>), year |-> 2024] }

\* endpoints lines 79-84: service.calculate_numerology on the singleton. Of
\* what the singleton retains it reads the class tables, as they are when the
\* call runs (lines 235 and 326), and never _pratyantar_service
ServiceCalculate(r) == calculate_endpoint(r.birthdate, r.start_year, r.end_year)

\* lines 530 and pratyantar_service.py line 130: the periods are generated by
\* the object obtained, which calls calculate_antardasha of its
\* numerology_service (AttributeError without one: HTTP 500); the class
\* tables are read as they are when the call runs
ServiceMonthlyGrids(ps, r) ==
    IF ps.numerology_service = Service
    THEN monthly_grids_endpoint(r.birthdate, r.year)
    ELSE ErrorResponse(500, "AttributeError")

\* the first response recorded per Operation A request, with the field then
RecordFirst(first, r, resp, field) ==
    IF r \in DOMAIN first THEN first
    ELSE [x \in (DOMAIN first) \cup {r} |->
             IF x = r THEN [response |-> resp, field |-> field] ELSE first[x]]

\* POST /calculate arrives
SvcStartA ==
    /\ pc \in {"idle", "service"}
    /\ started < MaxServiceCalls
    /\ \E c \in Callers, r \in ServiceRequestsA :
          /\ calls[c].pc = "idle"
          /\ calls' = [calls EXCEPT ![c] = [IdleCall EXCEPT !.pc = "a_run", !.request = r]]
    /\ started' = started + 1
    /\ pc' = "service"
    /\ UNCHANGED <<mahaVars, lookupVars, pratyVars, opVars, funcVars,
                   class_attrs, pratyantar_service_field, heap, first_result>>

\* endpoints lines 79-92: calculate_numerology runs and the response is sent
SvcFinishA ==
    /\ \E c \in Callers :
          /\ calls[c].pc = "a_run"
          /\ calls' = [calls EXCEPT ![c].pc = "done",
                                    ![c].response = ServiceCalculate(calls[c].request)]
          /\ first_result' = RecordFirst(first_result, calls[c].request,
                                 ServiceCalculate(calls[c].request),
                                 pratyantar_service_field)
    /\ class_attrs' = ClassAttrsAfterCall(class_attrs)
    /\ UNCHANGED <<pc, mahaVars, lookupVars, pratyVars, opVars, funcVars,
                   pratyantar_service_field, heap, started>>

\* POST /monthly-grids arrives and runs up to line 530, or fails before it
SvcStartB ==
    /\ pc \in {"idle", "service"}
    /\ started < MaxServiceCalls
    /\ \E c \in Callers, r \in ServiceRequestsB :
          /\ calls[c].pc = "idle"
          /\ calls' = [calls EXCEPT ![c] =
                 IF ReachesPratyantarService(r)
                 THEN [IdleCall EXCEPT !.pc = "b_check", !.request = r]
                 ELSE [IdleCall EXCEPT !.pc = "done", !.request = r,
                                       !.response = monthly_grids_endpoint(r.birthdate, r.year)]]
    /\ started' = started + 1
    /\ pc' = "service"
    /\ UNCHANGED <<mahaVars, lookupVars, pratyVars, opVars, funcVars,
                   class_attrs, pratyantar_service_field, heap, first_result>>

\* line 49: if self._pratyantar_service is None
SvcCheckNone ==
    /\ \E c \in Callers :
          /\ calls[c].pc = "b_check"
          /\ calls' = [calls EXCEPT ![c].pc =
                 IF pratyantar_service_field = None THEN "b_construct" ELSE "b_return"]
    /\ UNCHANGED <<pc, mahaVars, lookupVars, pratyVars, opVars, funcVars,
                   class_attrs, pratyantar_service_field, heap, started, first_result>>

\* lines 50-51: self._pratyantar_service = PratyantarService(self)
SvcConstruct ==
    /\ \E c \in Callers :
          /\ calls[c].pc = "b_construct"
          /\ calls' = [calls EXCEPT ![c].pc = "b_return"]
    /\ heap' = Append(heap, NewPratyantarService(Service))
    /\ pratyantar_service_field' = Len(heap) + 1
    /\ UNCHANGED <<pc, mahaVars, lookupVars, pratyVars, opVars, funcVars,
                   class_attrs, started, first_result>>

\* line 52: return self._pratyantar_service
SvcReturnField ==
    /\ \E c \in Callers :
          /\ calls[c].pc = "b_return"
          /\ calls' = [calls EXCEPT ![c].pc = "b_grids", ![c].ps = pratyantar_service_field]
    /\ UNCHANGED <<pc, mahaVars, lookupVars, pratyVars, opVars, funcVars,
                   class_attrs, pratyantar_service_field, heap, started, first_result>>

\* lines 530-569 and endpoints lines 123-127: the periods and grids are built
\* with the object obtained and the response is sent
SvcFinishB ==
    /\ \E c \in Callers :
          /\ calls[c].pc = "b_grids"
          /\ calls' = [calls EXCEPT ![c].pc = "done",
                                    ![c].response =
                                        ServiceMonthlyGrids(heap[calls[c].ps],
                                                            calls[c].request)]
    /\ class_attrs' = ClassAttrsAfterCall(class_attrs)
    /\ UNCHANGED <<pc, mahaVars, lookupVars, pratyVars, opVars, funcVars,
                   pratyantar_service_field, heap, started, first_result>>

\* the caller is free for another call
SvcRelease ==
    /\ \E c \in Callers :
          /\ calls[c].pc = "done"
          /\ calls' = [calls EXCEPT ![c] = IdleCall]
    /\ UNCHANGED <<pc, mahaVars, lookupVars, pratyVars, opVars, funcVars,
                   class_attrs, pratyantar_service_field, heap, started, first_result>>

NextService ==
    \/ SvcStartA
    \/ SvcFinishA
    \/ SvcStartB
    \/ SvcCheckNone
    \/ SvcConstruct
    \/ SvcReturnField
    \/ SvcFinishB
    \/ SvcRelease

Next == NextMaha \/ NextPraty \/ NextOps \/ NextFunctions \/ NextService

Spec == Init /\ [][Next]_vars

SpecMaha == Init /\ [][NextMaha]_vars

SpecPraty == Init /\ [][NextPraty]_vars

SpecOps == Init /\ [][NextOps]_vars

SpecFunctions == Init /\ [][NextFunctions]_vars

SpecService == Init /\ [][NextService]_vars

\* the two period-generation loops run synchronously inside one call: a call
\* that has started is not suspended for ever, so every step of a running loop
\* is eventually taken (weak fairness of each loop step)
NextLoops == NextMaha \/ NextPraty

\* MahaIterate can take a step exactly when the while-condition of line 252
\* holds, and its step always changes pc or timeline
MahaIterateEnabled == pc = "maha_loop" /\ MahaGuard(current_date, end_date)

\* PratyIterate can take a step in every state of the loop of line 148, and its
\* step always changes pc or periods
PratyIterateEnabled == pc = "praty_loop"

\* WF_vars(MahaIterate), with ENABLED <<MahaIterate>>_vars written out as its guard
FairMahaIterate == []<>(~MahaIterateEnabled) \/ []<><<MahaIterate>>_vars

\* WF_vars(PratyIterate), with ENABLED <<PratyIterate>>_vars written out as its guard
FairPratyIterate == []<>(~PratyIterateEnabled) \/ []<><<PratyIterate>>_vars

SpecLoops ==
    /\ Init
    /\ [][NextLoops]_vars
    /\ FairMahaIterate
    /\ WF_vars(MahaReturn)
    /\ FairPratyIterate

(***************************************************************************)
(* Properties of generate_mahadasha_timeline and get_mahadasha_for_date    *)
(***************************************************************************)

MahaReturned == pc \in {"maha_returned", "lookup_done"}

\* the datetimes a period's strings denote
StartOf(i) == FromIsoFormat(timeline[i].start_date)

EndOf(i) == FromIsoFormat(timeline[i].end_date)

\* the horizon of the running call, from its arguments
HorizonOfCall == Datetime(dob_date.year + years_ahead, dob_date.month, dob_date.day)

\* the end of a period that spans its full dasha_number years
FullSpanEnd(i) ==
    AddDays(Datetime(StartOf(i).year + timeline[i].dasha_number,
                     StartOf(i).month, StartOf(i).day), -1)

\* C1: a returned timeline is contiguous: every period starts exactly one day
\* after the previous one ends, and the first period starts on the birthdate.
C1_Contiguous ==
    MahaReturned =>
        /\ \A i \in 1..(Len(timeline) - 1) :
              /\ DtKey(StartOf(i + 1)) = DtKey(EndOf(i)) + 24
              /\ StartOf(i + 1) = AddDays(EndOf(i), 1)
        /\ Len(timeline) >= 1 => StartOf(1) = dob_date

C1_Witness ==
    /\ pc = "maha_returned"
    /\ Len(timeline) >= 3
    /\ EndOf(Len(timeline)) = HorizonOfCall

\* C2: every period except possibly the last spans exactly dasha_number years
\* (it ends the day before the same month and day, dasha_number years later);
\* for root 8 from 26/02/1982 the first two periods are 8: 1982-02-26..1990-02-25
\* and 9: 1990-02-26..1999-02-25.
C2_FullSpan ==
    MahaReturned =>
        /\ \A i \in 1..(Len(timeline) - 1) :
              /\ EndOf(i) = FullSpanEnd(i)
              /\ AddDays(EndOf(i), 1) =
                    Datetime(StartOf(i).year + timeline[i].dasha_number,
                             StartOf(i).month, StartOf(i).day)
        /\ (dob_date = Datetime(1982, 2, 26) /\ root = 8 /\ years_ahead >= 17) =>
              /\ Len(timeline) >= 2
              /\ timeline[1].dasha_number = 8
              /\ StartOf(1) = Datetime(1982, 2, 26)
              /\ EndOf(1) = Datetime(1990, 2, 25)
              /\ timeline[2].dasha_number = 9
              /\ StartOf(2) = Datetime(1990, 2, 26)
              /\ EndOf(2) = Datetime(1999, 2, 25)

C2_Witness ==
    /\ pc = "maha_returned"
    /\ dob_date = Datetime(1982, 2, 26) /\ root = 8 /\ years_ahead > 17
    /\ Len(timeline) >= 3

\* C3: the dasha numbers follow the wrapping 1..9 cycle seeded by the root:
\* the first is the root, each next one is (previous mod 9) + 1, 9 is followed
\* by 1, and every dasha number is in 1..9.
C3_DashaCycle ==
    MahaReturned =>
        /\ Len(timeline) >= 1 => timeline[1].dasha_number = root
        /\ \A i \in 1..Len(timeline) : timeline[i].dasha_number \in 1..9
        /\ \A i \in 1..(Len(timeline) - 1) :
              /\ timeline[i + 1].dasha_number = (timeline[i].dasha_number % 9) + 1
              /\ timeline[i].dasha_number = 9 => timeline[i + 1].dasha_number = 1

C3_Witness ==
    /\ pc = "maha_returned"
    /\ \E i \in 1..(Len(timeline) - 1) :
          timeline[i].dasha_number = 9 /\ timeline[i + 1].dasha_number = 1

\* C4: with horizon = birth month/day in year birth_year + years_ahead, no
\* period starts at or after the horizon, no period ends later than the
\* horizon, and only the final period may be shorter than dasha_number years.
C4_Horizon ==
    MahaReturned =>
        \A i \in 1..Len(timeline) :
            /\ DtLt(StartOf(i), HorizonOfCall)
            /\ DtLe(EndOf(i), HorizonOfCall)
            /\ DtLe(EndOf(i), FullSpanEnd(i))
            /\ DtLt(EndOf(i), FullSpanEnd(i)) => i = Len(timeline)

C4_Witness ==
    /\ pc = "maha_returned"
    /\ Len(timeline) >= 2
    /\ DtLt(EndOf(Len(timeline)), FullSpanEnd(Len(timeline)))
    /\ EndOf(Len(timeline)) = HorizonOfCall

\* the periods of the timeline whose inclusive range holds an ordinal day
Containing(ord) ==
    { i \in 1..Len(timeline) :
        /\ Ymd2Ord(timeline[i].start_date.yyyy, timeline[i].start_date.mm,
                   timeline[i].start_date.dd) <= ord
        /\ ord <= Ymd2Ord(timeline[i].end_date.yyyy, timeline[i].end_date.mm,
                          timeline[i].end_date.dd) }

\* C5: the lookup returns the dasha number of the period whose inclusive range
\* holds the calendar day of the query (time of day ignored) and None exactly
\* when no period holds it; at most one period holds any day, and every day from
\* the birthdate to the day before the horizon is held by exactly one period.
C5_Lookup ==
    /\ pc = "lookup_done" =>
          LET hit == Containing(Ymd2Ord(query_date.year, query_date.month, query_date.day))
          IN  /\ Cardinality(hit) <= 1
              /\ (hit = {}) <=> (lookup_result = None)
              /\ \A i \in hit : lookup_result = timeline[i].dasha_number
    /\ pc = "maha_returned" =>
          \A ord \in Ordinal(dob_date)..(Ordinal(HorizonOfCall) - 1) :
              Cardinality(Containing(ord)) = 1

C5_Witness ==
    /\ pc = "lookup_done"
    /\ query_date.hour = 13
    /\ lookup_result # None
    /\ Len(timeline) >= 3
    /\ Containing(Ordinal(query_date)) = {3}
    /\ Ordinal(query_date) = Ordinal(EndOf(3))

(***************************************************************************)
(* Properties of Operation A (/calculate) and Operation B (/monthly-grids) *)
(***************************************************************************)

OpDone == pc \in {"opA_done", "opB_done"}

\* the <<day, month, year>> the request's birthdate was written from
RequestTriples ==
    { b \in Birthdates \cup { <<32, 1, 1990>>, <<26, 13, 1982>> } :
          request.birthdate = BirthdateText(b) }

\* the triple names a day of the Gregorian calendar: it is the date of its
\* own ordinal
RealDate(b) ==
    /\ b[2] \in 1..12
    /\ b[1] >= 1
    /\ Ord2Ymd(Ymd2Ord(b[3], b[2], b[1])) = [year |-> b[3], month |-> b[2], day |-> b[1]]

LeapDay(b) == b[1] = 29 /\ b[2] = 2

\* the year parameters of the request pass their validators
YearsAccepted ==
    IF request.op = "A"
    THEN validate_year_range(request.start_year) /\ validate_year_range(request.end_year)
    ELSE validate_year(request.year)

\* the years of Operation A that the year entries must cover
CoveredYears(b) ==
    { y \in OrDefault(request.start_year, b[3])..OrDefault(request.end_year, b[3] + 100) :
          y >= b[3] }

\* C6: in Operation A, for every valid birthdate and every year y with
\* birth_year <= y <= end_year (given or birth_year + 100), the YearEntry of y
\* exists and its maha_number is in 1..9: the timeline covers end_year.
C6_TimelineCoversEndYear ==
    (pc = "opA_done" /\ YearsAccepted) =>
        \A b \in { t \in RequestTriples : RealDate(t) /\ t[3] \in 1900..2100 } :
            /\ response.status = 200
            /\ \A y \in CoveredYears(b) :
                  \E i \in 1..Len(response.body.year_grids) :
                      /\ response.body.year_grids[i].year = y
                      /\ response.body.year_grids[i].maha_number \in 1..9

\* C6 for the birthdates that are not a leap day: the sizing of the timeline,
\* max(end_year - birth_year + 10, 120) years, covers every year entry.
TimelineCoversEndYearOffLeapDay ==
    (pc = "opA_done" /\ YearsAccepted) =>
        \A b \in { t \in RequestTriples :
                       RealDate(t) /\ t[3] \in 1900..2100 /\ ~LeapDay(t) } :
            /\ response.status = 200
            /\ \A y \in CoveredYears(b) :
                  \E i \in 1..Len(response.body.year_grids) :
                      /\ response.body.year_grids[i].year = y
                      /\ response.body.year_grids[i].maha_number \in 1..9

\* a year was reached with an entry of a later year than the birth year
\* whose Mahadasha was found
CoveredWitness ==
    /\ pc = "opA_done"
    /\ response.status = 200
    /\ request.end_year = 2200
    /\ \E i \in 1..Len(response.body.year_grids) :
          /\ response.body.year_grids[i].year = 2200
          /\ response.body.year_grids[i].maha_number \in 1..9

\* C7: a leap-day birthdate (29/02/2000) is accepted: Operation A and
\* Operation B return a result for it, and in Operation A every year entry of
\* a year that is not a leap year starts on 28 February.
C7_LeapDayAccepted ==
    (OpDone /\ YearsAccepted) =>
        \A b \in { t \in RequestTriples : RealDate(t) /\ LeapDay(t) } :
            /\ response.status = 200
            /\ request.op = "A" =>
                  \A i \in 1..Len(response.body.year_grids) :
                      ~IsLeap(response.body.year_grids[i].year) =>
                          /\ response.body.year_grids[i].start_date.mm = 2
                          /\ response.body.year_grids[i].start_date.dd = 28

\* a leap-day birthdate that the validators and datetime(...) accept is
\* answered 400: the Mahadasha timeline raised ValueError
LeapDayRejected ==
    /\ OpDone
    /\ YearsAccepted
    /\ request.birthdate = BirthdateText(<<29, 2, 2000>>)
    /\ response.status = 400
    /\ response.raised_at = "mahadasha_timeline"

\* C8: a birthdate whose day, month and year do not form a real calendar date
\* makes Operation A and Operation B fail with a validation error raised
\* before any numerology calculation: no result is returned, and the day is
\* not clamped.
C8_UnrealDateRejected ==
    OpDone =>
        \A b \in { t \in RequestTriples : ~RealDate(t) } :
            /\ response.status \in {400, 422}
            /\ response.raised_at \in
                   {"validate_birthdate", "validate_year_range", "validate_year", "dob_date"}
            /\ "body" \notin DOMAIN response

\* 31/02/1990 passed the field validators and was refused by datetime(...)
C8_Witness ==
    /\ pc = "opB_done"
    /\ YearsAccepted
    /\ request.birthdate = BirthdateText(<<31, 2, 1990>>)
    /\ response.status = 400
    /\ response.raised_at = "dob_date"
    /\ "body" \notin DOMAIN response

\* the Lo Shu square, row by row
LoShuRows == << <<3, 1, 9>>, <<6, 7, 5>>, <<2, 8, 4>> >>

\* the characters in the cell of number n of a 3x3 grid (none for a null cell)
CellChars(array, n) ==
    LET rc == CHOOSE p \in (1..3) \X (1..3) : LoShuRows[p[1]][p[2]] = n
    IN  IF array[rc[1]][rc[2]] = NoneStr THEN <<>> ELSE array[rc[1]][rc[2]]

\* the number of characters in all cells of a 3x3 grid
RECURSIVE TotalChars(_, _)
TotalChars(array, n) ==
    IF n = 0 THEN 0 ELSE Len(CellChars(array, n)) + TotalChars(array, n - 1)

\* n written once when it is the number x, nothing otherwise
OnceIf(n, x) == IF n = x THEN <<Str(n)>> ELSE <<>>

\* the grid of a year entry is the natal grid with +1 Mahadasha and +1 Antardasha
YearGridIsOverlay(e, natal_array) ==
    /\ e.maha_number \in 1..9
    /\ e.antar_number \in 1..9
    /\ \A n \in 1..9 :
          CellChars(e.grid, n) =
              CellChars(natal_array, n) \o OnceIf(n, e.maha_number) \o OnceIf(n, e.antar_number)
    /\ TotalChars(e.grid, 9) = TotalChars(natal_array, 9) + 2

\* C11: every YearEntry grid returned by Operation A is the natal grid with
\* exactly +1 for the year's Mahadasha number and +1 for the year's Antardasha
\* number and no other cell changed, so it holds the natal characters plus 2,
\* for every year of the requested range.
C11_YearGridOverlay ==
    (pc = "opA_done" /\ response.status = 200) =>
        \A i \in 1..Len(response.body.year_grids) :
            YearGridIsOverlay(response.body.year_grids[i], response.body.natal_grid)

\* C11 for the years from the birth year on: the overlay rule itself
YearGridOverlayFromBirthYear ==
    (pc = "opA_done" /\ response.status = 200) =>
        \A i \in 1..Len(response.body.year_grids) :
            response.body.year_grids[i].year >= response.body.year =>
                YearGridIsOverlay(response.body.year_grids[i], response.body.natal_grid)

\* a year before the birth year was requested: its entry has no Mahadasha
\* and its grid is the natal grid with the Antardasha alone
YearBeforeBirthWitness ==
    /\ pc = "opA_done"
    /\ response.status = 200
    /\ request.start_year = 1990
    /\ response.body.year = 2004
    /\ response.body.year_grids[1].year = 1990
    /\ response.body.year_grids[1].maha_number = None
    /\ TotalChars(response.body.year_grids[1].grid, 9)
           = TotalChars(response.body.natal_grid, 9) + 1

\* the natal grid of a birthdate <<day, month, year>> as a 3x3 grid
NatalArrayOf(b) ==
    get_natal_grid_array(build_natal_grid(build_natal_grid_digits(b[1], b[2], b[3],
        calculate_destiny_number(calculate_root_number(b[1]), calculate_month_number(b[2]),
                                 calculate_year_number(b[3])))))

\* the grid of a period entry is the natal grid with +1 Mahadasha and +1
\* Antardasha of the year and +1 Pratyantar of the period
PeriodGridIsOverlay(g, natal_array, maha, antar) ==
    /\ maha \in 1..9
    /\ antar \in 1..9
    /\ g.antar_number \in 1..9
    /\ \A n \in 1..9 :
          CellChars(g.grid, n) =
              CellChars(natal_array, n) \o OnceIf(n, maha) \o OnceIf(n, antar)
                  \o OnceIf(n, g.antar_number)
    /\ TotalChars(g.grid, 9) = TotalChars(natal_array, 9) + 3

\* every period grid of the response is the overlay of the year (the first
\* period starts on the year's birthday and carries the year's Mahadasha and,
\* as its Pratyantar, the year's Antardasha)
PeriodGridsAreOverlays(b) ==
    \A i \in 1..Len(response.body.monthly_grids) :
        PeriodGridIsOverlay(response.body.monthly_grids[i], NatalArrayOf(b),
                            response.body.monthly_grids[1].maha_number,
                            response.body.monthly_grids[1].antar_number)

\* C12: every MonthlyPeriodEntry grid returned by Operation B is the annual
\* overlay (natal + Mahadasha + Antardasha of the target year) plus exactly +1
\* for the period's Pratyantar number, whatever that number is; Personal Year,
\* Personal Month and Basic Numbers add nothing: natal characters plus 3.
C12_PeriodGridOverlay ==
    (pc = "opB_done" /\ response.status = 200) =>
        \A b \in RequestTriples : PeriodGridsAreOverlays(b)

\* C12 for the target years the 120-year timeline covers
PeriodGridOverlayInTimeline ==
    (pc = "opB_done" /\ response.status = 200) =>
        \A b \in { t \in RequestTriples :
                       t[3] <= request.year /\ request.year < t[3] + 120 } :
            PeriodGridsAreOverlays(b)

\* a period grid with Pratyantar 6 and one with Pratyantar 8 inside the timeline
PeriodGridWitness ==
    /\ pc = "opB_done"
    /\ response.status = 200
    /\ request.birthdate = BirthdateText(<<26, 2, 1982>>)
    /\ request.year = 2024
    /\ \E i, j \in 1..Len(response.body.monthly_grids) :
          /\ response.body.monthly_grids[i].antar_number = 6
          /\ response.body.monthly_grids[j].antar_number = 8

\* a target year after the end of the 120-year timeline: no Mahadasha is
\* found and the period grids hold the natal characters plus 2
YearPastTimelineWitness ==
    /\ pc = "opB_done"
    /\ response.status = 200
    /\ request.birthdate = BirthdateText(<<26, 2, 1982>>)
    /\ request.year = 2200
    /\ response.body.monthly_grids[1].maha_number = None
    /\ TotalChars(response.body.monthly_grids[1].grid, 9)
           = TotalChars(NatalArrayOf(<<26, 2, 1982>>), 9) + 2

(***************************************************************************)
(* Properties of generate_pratyantar_periods                               *)
(***************************************************************************)

\* the birthday of the running call in a year: 28 February stands for a
\* 29 February birthday in a year that is not a leap year
BirthdayIn(y) ==
    IF praty_month = 2 /\ praty_day = 29 /\ ~IsLeap(y)
    THEN Datetime(y, 2, 28)
    ELSE Datetime(y, praty_month, praty_day)

\* C9: the first period starts on the birthday projected into the target year,
\* each next period starts the day after the previous one ends, each period's
\* inclusive span and duration_days equal multi x 8, every period ends before
\* the next birthday, and the trailing days that do not hold a full period are
\* not emitted.
C9_PratyPeriods ==
    pc = "praty_returned" =>
        /\ Len(periods) >= 1
        /\ periods[1].start_date = BirthdayIn(praty_year)
        /\ \A i \in 1..(Len(periods) - 1) :
              Ordinal(periods[i + 1].start_date) = Ordinal(periods[i].end_date) + 1
        /\ \A i \in 1..Len(periods) :
              /\ Ordinal(periods[i].end_date) - Ordinal(periods[i].start_date) + 1
                    = periods[i].multi * 8
              /\ periods[i].duration_days = periods[i].multi * 8
              /\ Ordinal(periods[i].end_date) < Ordinal(BirthdayIn(praty_year + 1))
              /\ periods[i].start = StrfDMY(periods[i].start_date)
              /\ periods[i].end = StrfDMY(periods[i].end_date)
        /\ LET last == periods[Len(periods)]
               trailing == Ordinal(BirthdayIn(praty_year + 1)) - Ordinal(last.end_date) - 1
           IN  /\ trailing >= 0
               /\ trailing < 8 * (IF last.multi = 9 THEN 1 ELSE last.multi + 1)

C9_Witness ==
    /\ pc = "praty_returned"
    /\ praty_day = 29 /\ praty_month = 2 /\ ~IsLeap(praty_year)
    /\ IsLeap(praty_year + 1)
    /\ Len(periods) = 9
    /\ Ordinal(periods[9].end_date) < Ordinal(next_birthday) - 1

\* C10: the sequence is seeded by the target year's Antardasha and advances by
\* one with wrap 9 -> 1, with pratyantar = multi in every period; for DOB
\* 26/02/1982 (root 8) and target year 2024 the seed is 9 and the period holding
\* 05/09/2024 has pratyantar 6 and runs from 05/09/2024 to 22/10/2024.
C10_PratySequence ==
    pc = "praty_returned" =>
        /\ Len(periods) >= 1
        /\ periods[1].multi =
              calculate_antardasha(praty_year, praty_day, praty_month,
                                   BirthdayIn(praty_year), praty_root)
        /\ \A i \in 1..Len(periods) : periods[i].pratyantar = periods[i].multi
        /\ \A i \in 1..(Len(periods) - 1) :
              periods[i + 1].multi = IF periods[i].multi = 9 THEN 1
                                     ELSE periods[i].multi + 1
        /\ (praty_year = 2024 /\ praty_day = 26 /\ praty_month = 2 /\ praty_root = 8) =>
              /\ periods[1].multi = 9
              /\ \E i \in 1..Len(periods) :
                    /\ periods[i].pratyantar = 6
                    /\ periods[i].start_date = Datetime(2024, 9, 5)
                    /\ periods[i].end_date = Datetime(2024, 10, 22)
                    /\ periods[i].start = [dd |-> 5, mm |-> 9, yyyy |-> 2024]
                    /\ periods[i].end = [dd |-> 22, mm |-> 10, yyyy |-> 2024]
              /\ \A i \in 1..Len(periods) :
                    (/\ Ordinal(periods[i].start_date) <= Ymd2Ord(2024, 9, 5)
                     /\ Ymd2Ord(2024, 9, 5) <= Ordinal(periods[i].end_date))
                    => periods[i].pratyantar = 6

C10_Witness ==
    /\ pc = "praty_returned"
    /\ praty_year = 2024 /\ praty_day = 26 /\ praty_month = 2 /\ praty_root = 8
    /\ Len(periods) >= 7
    /\ periods[7].pratyantar = 6

(***************************************************************************)
(* Properties of the natal grid, the digit reduction, the core numbers,    *)
(* the Antardasha and the base overlay counts                              *)
(***************************************************************************)

FnDone(fn) == pc = "fn_done" /\ fn_call.fn = fn

\* the characters of cell n of a grid dict (none for a null cell)
DictChars(grid, n) == IF grid[n] = NoneStr THEN <<>> ELSE grid[n]

\* the number of characters in the cells 1..n of a grid dict
RECURSIVE TotalDictChars(_, _)
TotalDictChars(grid, n) ==
    IF n = 0 THEN 0 ELSE Len(DictChars(grid, n)) + TotalDictChars(grid, n - 1)

\* how often n occurs in a list of digits
Occurrences(digits, n) == Cardinality({ i \in 1..Len(digits) : digits[i] = n })

\* C13: for every valid birthdate the natal grid holds, for each n in 1..9,
\* the character n repeated count(n) times (null when count is 0); every digit
\* fed in lies in 1..9 and the characters of all cells are as many as the
\* digits of the multiset.
C13_NatalGridPopulation ==
    (FnDone("natal_grid") /\ RealDate(<<fn_call.day, fn_call.month, fn_call.year>>)) =>
        /\ \A i \in 1..Len(fn_result.digits) : fn_result.digits[i] \in 1..9
        /\ \A n \in 1..9 :
              /\ (fn_result.grid[n] = NoneStr) <=> (Occurrences(fn_result.digits, n) = 0)
              /\ Len(DictChars(fn_result.grid, n)) = Occurrences(fn_result.digits, n)
              /\ \A k \in 1..Len(DictChars(fn_result.grid, n)) :
                    fn_result.grid[n][k] = Str(n)
        /\ TotalDictChars(fn_result.grid, 9) = Len(fn_result.digits)

\* the natal grid of 26/02/1982: "222", "88", "3", "6", the other cells null
C13_Witness ==
    /\ FnDone("natal_grid")
    /\ fn_call.day = 26 /\ fn_call.month = 2 /\ fn_call.year = 1982
    /\ Len(fn_result.digits) = 7
    /\ fn_result.grid[2] = <<"2", "2", "2">>
    /\ fn_result.grid[8] = <<"8", "8">>
    /\ fn_result.grid[1] = NoneStr

\* C14: get_natal_grid_array lays every grid dict out as the rows [3,1,9],
\* [6,7,5], [2,8,4]: each number has exactly one cell, the cell of n holds
\* grid[n] (null when grid[n] is null) and never characters of another number.
C14_LoShuLayout ==
    /\ \A n \in 1..9 :
          Cardinality({ p \in (1..3) \X (1..3) : LoShuRows[p[1]][p[2]] = n }) = 1
    /\ \A n \in 1..9 :
          LoShuRows[LO_SHU_POSITIONS[n][1] + 1][LO_SHU_POSITIONS[n][2] + 1] = n
    /\ FnDone("get_natal_grid_array") =>
          \A r \in 1..3, c \in 1..3 :
              /\ fn_result[r][c] = fn_call.grid[LoShuRows[r][c]]
              /\ fn_result[r][c] # NoneStr =>
                    \A k \in 1..Len(fn_result[r][c]) :
                        fn_result[r][c][k] = Str(LoShuRows[r][c])

\* a grid with "55" and "7" and a null cell for 1, laid out
C14_Witness ==
    /\ FnDone("get_natal_grid_array")
    /\ fn_call.grid[5] = <<"5", "5">>
    /\ fn_call.grid[7] = <<"7">>
    /\ fn_call.grid[1] = NoneStr
    /\ fn_result[2][3] = <<"5", "5">>
    /\ fn_result[2][2] = <<"7">>
    /\ fn_result[1][2] = NoneStr

\* 1 when the decimal digit d is the number n and is not zero
NonZeroDigit(d, n) == IF d = n /\ d # 0 THEN 1 ELSE 0

\* how often n occurs among the non-zero digits of a number below 100
DigitOccurrences(x, n) == NonZeroDigit(x \div 10, n) + NonZeroDigit(x % 10, n)

\* 1 when x is the number n
IsNumber(x, n) == IF x = n THEN 1 ELSE 0

\* the digital root of a day 1..31
RootOfDay(day) == 1 + ((day - 1) % 9)

\* C15: for every day 1..31, month 1..12 and year, whichever branch of the
\* psychic-extra rule runs, the multiset of build_natal_grid_digits is the
\* non-zero digits of the day, the Root exactly once, the non-zero digits of
\* the month and of year mod 100, and the Destiny exactly once.
C15_NatalDigitMultiset ==
    FnDone("natal_grid") =>
        /\ \A n \in 0..9 :
              Occurrences(fn_result.digits, n) =
                  DigitOccurrences(fn_call.day, n) + IsNumber(RootOfDay(fn_call.day), n)
                  + DigitOccurrences(fn_call.month, n)
                  + DigitOccurrences(fn_call.year % 100, n)
                  + IsNumber(fn_call.destiny, n)
        /\ \A i \in 1..Len(fn_result.digits) : fn_result.digits[i] \in 0..9

\* day 26 takes the psychic-extra branch: the Root 8 comes last, once
C15_Witness ==
    /\ FnDone("natal_grid")
    /\ fn_call.day = 26 /\ fn_call.month = 2 /\ fn_call.year = 1982
    /\ fn_result.digits = <<2, 6, 2, 8, 2, 3, 8>>

\* day 30 takes the other branch: the Root 3 follows the day digits, once
NoPsychicExtraWitness ==
    /\ FnDone("natal_grid")
    /\ fn_call.day = 30 /\ fn_call.month = 6 /\ fn_call.year = 1986
    /\ fn_result.digits = <<3, 3, 6, 8, 6, 6>>

\* the sum of the decimal digits of a number below 10000
DecimalDigitSum(x) ==
    (x % 10) + ((x \div 10) % 10) + ((x \div 100) % 10) + ((x \div 1000) % 10)

\* the digit sum taken again and again until the value is below 10 (three
\* times are enough below 10000)
RepeatedDigitSum(x) ==
    IF x < 10 THEN x
    ELSE IF DecimalDigitSum(x) < 10 THEN DecimalDigitSum(x)
    ELSE IF DecimalDigitSum(DecimalDigitSum(x)) < 10 THEN DecimalDigitSum(DecimalDigitSum(x))
    ELSE DecimalDigitSum(DecimalDigitSum(DecimalDigitSum(x)))

\* C16: reduce_to_single(n) is the repeated decimal digit sum of n; it is in
\* 1..9 for every n >= 1 (11 -> 2 and 22 -> 4, no master numbers), 24 -> 6,
\* 30 -> 3, and 0 -> 0.
C16_ReduceToSingle ==
    FnDone("reduce_to_single") =>
        /\ fn_result = RepeatedDigitSum(fn_call.number)
        /\ fn_call.number >= 1 => fn_result \in 1..9
        /\ fn_call.number = 0 => fn_result = 0
        /\ fn_call.number = 11 => fn_result = 2
        /\ fn_call.number = 22 => fn_result = 4
        /\ fn_call.number = 24 => fn_result = 6
        /\ fn_call.number = 30 => fn_result = 3

\* 1986 -> 24 -> 6: the digit sum is taken twice
C16_Witness ==
    /\ FnDone("reduce_to_single")
    /\ fn_call.number = 1986
    /\ fn_result = 6

\* C17: for every valid date Root, MonthNumber, YearNumber and Destiny are the
\* reductions of day, month, year and Root + MonthNumber + YearNumber, all in
\* 1..9; for 30/06/1986 they are 3, 6, 6, 6.
C17_CoreNumbers ==
    (FnDone("core_numbers") /\ RealDate(<<fn_call.day, fn_call.month, fn_call.year>>)) =>
        /\ fn_result.root = RepeatedDigitSum(fn_call.day)
        /\ fn_result.month_number = RepeatedDigitSum(fn_call.month)
        /\ fn_result.year_number = RepeatedDigitSum(fn_call.year)
        /\ fn_result.destiny =
               RepeatedDigitSum(fn_result.root + fn_result.month_number
                                + fn_result.year_number)
        /\ \A f \in {"root", "month_number", "year_number", "destiny"} : fn_result[f] \in 1..9
        /\ (fn_call.day = 30 /\ fn_call.month = 6 /\ fn_call.year = 1986) =>
               fn_result = [root |-> 3, month_number |-> 6, year_number |-> 6, destiny |-> 6]

\* 26/02/1982: Root 8, MonthNumber 2, YearNumber 2, Destiny 12 -> 3
C17_Witness ==
    /\ FnDone("core_numbers")
    /\ fn_call.day = 26 /\ fn_call.month = 2 /\ fn_call.year = 1982
    /\ fn_result = [root |-> 8, month_number |-> 2, year_number |-> 2, destiny |-> 3]

\* planet numbers of Sunday, Monday, .., Saturday
SundayFirstPlanets == <<1, 2, 9, 5, 3, 6, 8>>

\* the planet of a date: ordinal 1 (0001-01-01) is a Monday
PlanetOfDate(date) == SundayFirstPlanets[(Ymd2Ord(date.year, date.month, date.day) % 7) + 1]

\* C18: calculate_antardasha is reduce_to_single(p + year mod 100 + root +
\* month), month the raw 1..12 value and p the planet of the review date's
\* weekday (Sunday 1, Monday 2, Tuesday 9, Wednesday 5, Thursday 3, Friday 6,
\* Saturday 8); it is in 1..9; for 26/02/1982 (root 8) and 2024 it is 9.
C18_Antardasha ==
    FnDone("calculate_antardasha") =>
        /\ fn_result =
               RepeatedDigitSum(PlanetOfDate(fn_call.review_date) + (fn_call.year % 100)
                                + (IF fn_call.dob_root = None
                                   THEN RepeatedDigitSum(fn_call.day)
                                   ELSE fn_call.dob_root)
                                + fn_call.month)
        /\ fn_result \in 1..9
        /\ (/\ fn_call.year = 2024 /\ fn_call.day = 26 /\ fn_call.month = 2
            /\ fn_call.dob_root = 8 /\ fn_call.review_date = Datetime(2024, 2, 26)) =>
               fn_result = 9

\* the review date 26/02/2024 is a Monday: 2 + 24 + 8 + 2 = 36 -> 9
C18_Witness ==
    /\ FnDone("calculate_antardasha")
    /\ fn_call.year = 2024 /\ fn_call.day = 26 /\ fn_call.month = 2
    /\ fn_call.dob_root = 8
    /\ fn_call.review_date = Datetime(2024, 2, 26)
    /\ PlanetOfDate(fn_call.review_date) = 2
    /\ fn_result = 9

\* the count a dict of counts holds for n (0 when n is not a key)
CountOf(counts, n) == IF n \in DOMAIN counts THEN counts[n] ELSE 0

\* the numbers eligible for conditional overlay addition
ActiveSet == {1, 2, 3, 4, 5, 7, 9}

\* what the extended base overlay adds to the count of n
BaseAddition(n, maha, personal_year, basic_numbers) ==
    IsNumber(maha, n)
    + (IF n \in ActiveSet THEN IsNumber(personal_year, n) ELSE 0)
    + (IF n \in ActiveSet THEN Occurrences(basic_numbers, n) ELSE 0)

\* C19: build_mahadasha_base_counts returns the natal counts with +1 for the
\* Mahadasha whenever it is in 1..9 (6 and 8 included), +1 for the Personal
\* Year and +1 for each Basic Number only when that number is in
\* {1,2,3,4,5,7,9}; 6 and 8 are never raised by Personal Year or Basic
\* Numbers, every other count is unchanged and the natal counts passed in
\* are not modified.
C19_BaseCounts ==
    FnDone("build_mahadasha_base_counts") =>
        /\ DOMAIN fn_result.base \subseteq (DOMAIN fn_call.natal_counts) \cup (1..9)
        /\ \A n \in (DOMAIN fn_call.natal_counts) \cup (1..9) :
              CountOf(fn_result.base, n) =
                  CountOf(fn_call.natal_counts, n)
                  + BaseAddition(n, fn_call.maha, fn_call.personal_year,
                                 fn_call.basic_numbers)
        /\ \A n \in {6, 8} :
              CountOf(fn_result.base, n) =
                  CountOf(fn_call.natal_counts, n) + IsNumber(fn_call.maha, n)
        /\ fn_result.natal_counts = fn_call.natal_counts

\* the call of test_period.py for 26/02/1982 and 2024: Mahadasha 7 and
\* Personal Year 9 are added, the Basic Numbers 8 and 6 are not
C19_Witness ==
    /\ FnDone("build_mahadasha_base_counts")
    /\ fn_call.natal_counts = (2 :> 3) @@ (6 :> 1) @@ (8 :> 2) @@ (3 :> 1)
    /\ fn_call.maha = 7
    /\ fn_call.personal_year = 9
    /\ fn_call.basic_numbers = <<8, 6>>
    /\ fn_result.base = (2 :> 3) @@ (6 :> 1) @@ (8 :> 2) @@ (3 :> 1) @@ (7 :> 1) @@ (9 :> 1)

\* a Mahadasha 8 is added although 8 is not overlay-active
MahadashaEightWitness ==
    /\ FnDone("build_mahadasha_base_counts")
    /\ fn_call.maha = 8
    /\ fn_call.personal_year = 6
    /\ fn_call.basic_numbers = <<8, 6>>
    /\ fn_call.natal_counts = EmptyDict
    /\ fn_result.base = (8 :> 1)

\* the years Operation A reports: start_year (default: the birth year) up to
\* end_year (default: the birth year + 100)
RequestedYears(b) ==
    OrDefault(request.start_year, b[3])..OrDefault(request.end_year, b[3] + 100)

\* the birthday in year y as a calendar day: 28 February when the birthday
\* is 29 February and y is not a leap year
BirthdayOf(b, y) ==
    IF LeapDay(b) /\ ~IsLeap(y)
    THEN [year |-> y, month |-> 2, day |-> 28, hour |-> 0]
    ELSE [year |-> y, month |-> b[2], day |-> b[1], hour |-> 0]

\* the calendar day before a day, by way of its ordinal
DayBefore(dt) == AtHour(Ord2Ymd(Ordinal(dt) - 1), 0)

\* the year entries are those of the requested years in ascending order,
\* each from the birthday in its year to the day before the next birthday,
\* each starting on the day after the previous one ends
YearEntriesOf(b, year_grids) ==
    /\ Len(year_grids) = Cardinality(RequestedYears(b))
    /\ \A i \in 1..Len(year_grids) :
          /\ year_grids[i].year = OrDefault(request.start_year, b[3]) + i - 1
          /\ year_grids[i].start_date = IsoFormat(BirthdayOf(b, year_grids[i].year))
          /\ year_grids[i].end_date =
                 IsoFormat(DayBefore(BirthdayOf(b, year_grids[i].year + 1)))
    /\ \A i \in 1..(Len(year_grids) - 1) :
          /\ year_grids[i + 1].year = year_grids[i].year + 1
          /\ Ordinal(FromIsoFormat(year_grids[i + 1].start_date)) =
                 Ordinal(FromIsoFormat(year_grids[i].end_date)) + 1

\* C20: Operation A returns exactly one YearEntry for each year of
\* [start_year, end_year] in ascending order (start_year defaults to the birth
\* year, end_year to the birth year + 100: 101 entries by default); the entry
\* of y starts on the birthday in y and ends on the day before the birthday
\* in y + 1, so consecutive entries are contiguous and do not overlap.
C20_YearEntries ==
    (pc = "opA_done" /\ YearsAccepted) =>
        \A b \in { t \in RequestTriples : RealDate(t) /\ t[3] \in 1900..2100 } :
            /\ response.status = 200
            /\ YearEntriesOf(b, response.body.year_grids)

\* C20 for the birthdates that are not a leap day
YearEntriesOffLeapDay ==
    (pc = "opA_done" /\ YearsAccepted) =>
        \A b \in { t \in RequestTriples :
                       RealDate(t) /\ t[3] \in 1900..2100 /\ ~LeapDay(t) } :
            /\ response.status = 200
            /\ YearEntriesOf(b, response.body.year_grids)

\* the default range of 26/02/1982: 101 entries, 1982 to 2082
DefaultYearEntriesWitness ==
    /\ pc = "opA_done"
    /\ request.birthdate = BirthdateText(<<26, 2, 1982>>)
    /\ request.start_year = None
    /\ request.end_year = None
    /\ response.status = 200
    /\ Len(response.body.year_grids) = 101
    /\ response.body.year_grids[1].year = 1982
    /\ response.body.year_grids[101].year = 2082
    /\ response.body.year_grids[101].end_date =
           IsoFormat([year |-> 2083, month |-> 2, day |-> 25, hour |-> 0])

\* a valid request whose range holds no year: no entry is returned
EmptyYearRangeWitness ==
    /\ pc = "opA_done"
    /\ YearsAccepted
    /\ response.status = 200
    /\ Len(response.body.year_grids) = 0

\* a leap-day birthdate gets no year entry at all
NoYearEntriesForLeapDay ==
    /\ pc = "opA_done"
    /\ YearsAccepted
    /\ request.birthdate = BirthdateText(<<29, 2, 2000>>)
    /\ response.status = 400

\* the entries a returned result carries: year entries of Operation A,
\* period entries of Operation B
ReturnedEntries ==
    IF request.op = "A" THEN response.body.year_grids ELSE response.body.monthly_grids

\* C21: when a Mahadasha lookup finds no covering period the calculation is
\* aborted: no YearEntry or MonthlyPeriodEntry is ever returned with a
\* missing Mahadasha number (start_year before the birth year and target
\* years outside the timeline included).
C21_NoMissingMahadasha ==
    (OpDone /\ response.status = 200) =>
        \A i \in 1..Len(ReturnedEntries) : ReturnedEntries[i].maha_number # None

\* Operation A returned an entry without Mahadasha
MissingMahadashaInYearEntry ==
    /\ pc = "opA_done"
    /\ response.status = 200
    /\ \E i \in 1..Len(response.body.year_grids) :
          response.body.year_grids[i].maha_number = None

\* Operation B returned an entry without Mahadasha
MissingMahadashaInPeriodEntry ==
    /\ pc = "opB_done"
    /\ response.status = 200
    /\ \E i \in 1..Len(response.body.monthly_grids) :
          response.body.monthly_grids[i].maha_number = None

\* the Mahadasha Operation B finds on the birthday of the target year in its
\* 120-year timeline
TargetYearMahadasha(b) ==
    get_mahadasha_for_date(
        generate_mahadasha_timeline(Datetime(b[3], b[2], b[1]),
                                    calculate_root_number(b[1]), 120).timeline,
        ProjectBirthday(request.year, b[2], b[1]))

\* C22: the 120-year timeline of Operation B covers every query it accepts:
\* for every valid birthdate (birth year 1900..2100) and target year in
\* 1900..2200 the lookup on the target year's birthday finds a period and
\* every returned MonthlyPeriodEntry has maha_number in 1..9.
C22_TimelineCoversTargetYear ==
    (pc = "opB_done" /\ response.status = 200) =>
        \A b \in RequestTriples :
            /\ TargetYearMahadasha(b) \in 1..9
            /\ \A i \in 1..Len(response.body.monthly_grids) :
                  response.body.monthly_grids[i].maha_number \in 1..9

\* C22 for the target years from the birth year to the birth year + 119
TimelineCoversTargetYearBelow120 ==
    (pc = "opB_done" /\ response.status = 200) =>
        \A b \in { t \in RequestTriples :
                       t[3] <= request.year /\ request.year < t[3] + 120 } :
            /\ TargetYearMahadasha(b) \in 1..9
            /\ \A i \in 1..Len(response.body.monthly_grids) :
                  response.body.monthly_grids[i].maha_number \in 1..9

\* a target year before the birth year: no period of the timeline covers it
TargetYearBeforeBirthWitness ==
    /\ pc = "opB_done"
    /\ response.status = 200
    /\ request.birthdate = BirthdateText(<<1, 3, 2004>>)
    /\ request.year < 2004
    /\ response.body.monthly_grids[1].maha_number = None

(***************************************************************************)
(* Properties of concurrent calls on the module-level service              *)
(***************************************************************************)

CallDone(c, op) == calls[c].pc = "done" /\ calls[c].request.op = op

RunAlone(r) ==
    IF r.op = "A"
    THEN calculate_endpoint(r.birthdate, r.start_year, r.end_year)
    ELSE monthly_grids_endpoint(r.birthdate, r.year)

\* C24: under any interleaving of concurrent Operation A and B calls on the
\* single module-level service, two callers racing through the lazy
\* construction of its PratyantarService included, every call returns the
\* result it returns when run alone, and the service's only mutable field
\* ends up holding a PratyantarService bound to that same NumerologyService.
C24_ConcurrentCalls ==
    /\ \A c \in Callers :
          calls[c].pc = "done" => calls[c].response = RunAlone(calls[c].request)
    /\ \A c \in Callers :
          calls[c].pc \in {"b_return", "b_grids"} => pratyantar_service_field # None
    /\ pratyantar_service_field # None =>
          /\ pratyantar_service_field \in 1..Len(heap)
          /\ heap[pratyantar_service_field].numerology_service = Service

\* both callers found the field None and each constructed a PratyantarService;
\* both calls have returned their grids
C24_Witness ==
    /\ Len(heap) = 2
    /\ pratyantar_service_field = 2
    /\ \A c \in Callers : CallDone(c, "B") /\ calls[c].response.status = 200
    /\ \E c \in Callers : calls[c].ps = 1

(***************************************************************************)
(* Further properties of generate_pratyantar_periods                       *)
(***************************************************************************)

\* the guard of line 158 lets the iteration at hand proceed
IterationProceeds ==
    /\ pc = "praty_loop"
    /\ PratyGuard(current_start, next_birthday)
    /\ ~SkipPartial(DaysBetween(next_birthday, current_start),
                    FullPeriodDuration(pratyantar_multi))

\* C25: in generate_pratyantar_periods the defensive clamp is unreachable:
\* whenever the guard remaining_days >= multi x 8 lets an iteration proceed,
\* the computed end (start + multi x 8 - 1 days) is strictly before the next
\* birthday, the branch current_end >= next_birthday is never taken and no
\* emitted period has duration_days different from multi x 8.
C25_ClampUnreachable ==
    /\ ~clamp_taken
    /\ IterationProceeds =>
          Ordinal(current_start) + pratyantar_multi * 8 - 1 < Ordinal(next_birthday)
    /\ \A i \in 1..Len(periods) : periods[i].duration_days = periods[i].multi * 8

\* the ninth iteration proceeds with the fewest days in hand
C25_Witness ==
    /\ IterationProceeds
    /\ Len(periods) = 8
    /\ Ordinal(next_birthday) - Ordinal(current_start) - pratyantar_multi * 8 = 5

\* the Antardasha of the target year of the running call
YearAntardasha ==
    calculate_antardasha(praty_year, praty_day, praty_month, BirthdayIn(praty_year),
                         praty_root)

\* C26: for every birth day/month, root and target year,
\* generate_pratyantar_periods emits exactly 9 periods whose multi values are
\* the numbers 1..9 each once, a rotation of the cycle starting at the year's
\* Antardasha; together they cover exactly the first 360 days after the
\* birthday, and the discarded remainder is 5 or 6 days.
C26_NinePeriods ==
    pc = "praty_returned" =>
        /\ Len(periods) = 9
        /\ { periods[i].multi : i \in 1..Len(periods) } = 1..9
        /\ \A i \in 1..Len(periods) :
              periods[i].multi = ((YearAntardasha + i - 2) % 9) + 1
        /\ periods[1].start_date = BirthdayIn(praty_year)
        /\ Ordinal(periods[Len(periods)].end_date) = Ordinal(BirthdayIn(praty_year)) + 359
        /\ Ordinal(BirthdayIn(praty_year + 1))
               - Ordinal(periods[Len(periods)].end_date) - 1 \in {5, 6}

\* nine periods starting at Antardasha 9 with a remainder of 6 days
C26_Witness ==
    /\ pc = "praty_returned"
    /\ Len(periods) = 9
    /\ periods[1].multi = 9
    /\ periods[2].multi = 1
    /\ periods[9].multi = 8
    /\ Ordinal(next_birthday) - Ordinal(periods[9].end_date) - 1 = 6

\* the timeline Operation B builds for a birthdate <<day, month, year>>
TimelineOfOperationB(b) ==
    generate_mahadasha_timeline(Datetime(b[3], b[2], b[1]), calculate_root_number(b[1]),
                                120).timeline

\* every period of the timeline starts on the birth month and day
StartsOnBirthday(b, tl) ==
    \A i \in 1..Len(tl) :
        /\ FromIsoFormat(tl[i].start_date).month = b[2]
        /\ FromIsoFormat(tl[i].start_date).day = b[1]

\* every entry carries the Mahadasha found on the target year's birthday
EntriesCarryYearMahadasha(b) ==
    \A i \in 1..Len(response.body.monthly_grids) :
        response.body.monthly_grids[i].maha_number = TargetYearMahadasha(b)

\* C27: every Mahadasha period starts on the birth month and day, so no
\* Mahadasha boundary falls inside a birthday-to-birthday year; in the output
\* of Operation B every MonthlyPeriodEntry's maha_number (looked up at the
\* period's start date) equals the Mahadasha looked up at the target year's
\* birthday, the one added to the annual base of the period grids.
C27_PeriodMahadashaIsAnnual ==
    (pc = "opB_done" /\ response.status = 200) =>
        \A b \in RequestTriples :
            /\ StartsOnBirthday(b, TimelineOfOperationB(b))
            /\ EntriesCarryYearMahadasha(b)

\* C27 for every target year but the last of the timeline, birth year + 120
PeriodMahadashaIsAnnualOffHorizon ==
    (pc = "opB_done" /\ response.status = 200) =>
        \A b \in RequestTriples :
            /\ StartsOnBirthday(b, TimelineOfOperationB(b))
            /\ request.year # b[3] + 120 => EntriesCarryYearMahadasha(b)

\* target year = birth year + 120: the birthday is the horizon, the last day
\* of the timeline; the first period finds Mahadasha 5, the others none
HorizonYearWitness ==
    /\ pc = "opB_done"
    /\ response.status = 200
    /\ request.birthdate = BirthdateText(<<26, 2, 1982>>)
    /\ request.year = 2102
    /\ TargetYearMahadasha(<<26, 2, 1982>>) = 5
    /\ response.body.monthly_grids[1].maha_number = 5
    /\ \A i \in 2..9 : response.body.monthly_grids[i].maha_number = None

\* a target year inside the timeline: nine entries with the year's Mahadasha
SameMahadashaWitness ==
    /\ pc = "opB_done"
    /\ response.status = 200
    /\ request.birthdate = BirthdateText(<<26, 2, 1982>>)
    /\ request.year = 2024
    /\ Len(response.body.monthly_grids) = 9
    /\ \A i \in 1..9 : response.body.monthly_grids[i].maha_number = 7

(***************************************************************************)
(* Properties of overlay composition                                       *)
(***************************************************************************)

\* the length of a cell of a grid dict (None holds no character)
CellLen(grid, n) == IF grid[n] = NoneStr THEN 0 ELSE Len(grid[n])

\* the grid array of one year-table row built on a natal grid dict that
\* nothing else has touched
YearGridAlone(natal_grid_dict, row) ==
    YearGridsFrom(natal_grid_dict, <<row>>, 1, <<>>).grids[1]

\* C28: overlay composition never modifies its base: build_period_grid
\* leaves the annual counts it receives unchanged and building a year's grid
\* leaves the natal grid dict unchanged. Additions do not accumulate: the
\* grid of period k differs from the annual grid only in the cell of period
\* k's Pratyantar number, and the grid of a year is the same whatever other
\* years are built before it.
C28_BaseUnchanged ==
    /\ FnDone("period_grids") =>
          /\ fn_result.annual_grid_counts = fn_call.annual_grid_counts
          /\ Len(fn_result.grids) = Len(fn_call.pratyantars)
          /\ \A k \in 1..Len(fn_result.grids) : \A n \in 1..9 :
                Len(CellChars(get_natal_grid_array(fn_result.grids[k]), n)) =
                    fn_call.annual_grid_counts[n] + IsNumber(fn_call.pratyantars[k], n)
    /\ FnDone("year_grids") =>
          /\ fn_result.natal_grid_dict = fn_call.natal_grid_dict
          /\ Len(fn_result.grids) = Len(fn_call.rows)
          /\ \A i \in 1..Len(fn_result.grids) :
                /\ fn_result.grids[i] = YearGridAlone(fn_call.natal_grid_dict, fn_call.rows[i])
                /\ \A n \in 1..9 :
                      Len(CellChars(fn_result.grids[i], n)) =
                          CellLen(fn_call.natal_grid_dict, n)
                          + IsNumber(fn_call.rows[i][1], n) + IsNumber(fn_call.rows[i][2], n)

\* nine period grids built on annual counts that already hold the year's
\* Mahadasha: the ninth grid holds one character more than the annual counts
C28_Witness ==
    /\ FnDone("period_grids")
    /\ Len(fn_result.grids) = 9
    /\ fn_call.pratyantars[1] = 9
    /\ fn_call.annual_grid_counts[7] > 0
    /\ fn_call.annual_grid_counts[8] = 2
    /\ fn_result.grids[9][8] = <<"8", "8", "8">>
    /\ fn_result.grids[1][8] = <<"8", "8">>

\* two years with the same Mahadasha and Antardasha built one after the
\* other: the second grid equals the first
TwoYearGridsWitness ==
    /\ FnDone("year_grids")
    /\ fn_call.rows = << <<8, 8>>, <<8, 8>> >>
    /\ fn_result.grids[1] = fn_result.grids[2]
    /\ fn_result.natal_grid_dict = fn_call.natal_grid_dict

\* the entry Operation A returns for a year when only that year is requested
YearEntryAlone(y) == calculate_endpoint(request.birthdate, y, y).body.year_grids[1]

\* in Operation A the entry of a year is the one of the single-year request
\* and the natal grid is the one of the birthdate, whatever the range
YearGridSameForEveryRange ==
    (pc = "opA_done" /\ response.status = 200) =>
        /\ \A b \in RequestTriples : response.body.natal_grid = NatalArrayOf(b)
        /\ \A i \in 1..Len(response.body.year_grids) :
              response.body.year_grids[i] = YearEntryAlone(response.body.year_grids[i].year)

\* the call gave Mahadasha, Personal Year and Basic Numbers in 1..9
OverlayNumbersInRange ==
    /\ fn_call.maha \in 1..9
    /\ fn_call.personal_year \in 1..9
    /\ \A i \in 1..Len(fn_call.basic_numbers) : fn_call.basic_numbers[i] \in 1..9

\* each cell string of the base grid is as long as the base count of its number
BaseGridMatchesCounts ==
    \A n \in 1..9 : Len(fn_result.base_grid[n]) = CountOf(fn_result.base_counts, n)

\* C29: the two implementations of the extended base overlay agree: for the
\* same natal grid, Mahadasha, Personal Year and Basic Numbers (each in 1..9)
\* the length of each cell string of build_mahadasha_base_grid equals the
\* count build_mahadasha_base_counts gives that number, also when the
\* Personal Year or a Basic Number is 6 or 8.
C29_BaseOverlaysAgree ==
    (FnDone("base_overlays") /\ OverlayNumbersInRange) => BaseGridMatchesCounts

\* C29 when neither the Personal Year nor a Basic Number is 6 or 8
BaseOverlaysAgreeOffSixEight ==
    (/\ FnDone("base_overlays")
     /\ OverlayNumbersInRange
     /\ fn_call.personal_year \notin {6, 8}
     /\ \A i \in 1..Len(fn_call.basic_numbers) : fn_call.basic_numbers[i] \notin {6, 8})
        => BaseGridMatchesCounts

\* the call of test_period.py for 26/02/1982 and 2024: the grid holds the
\* Basic Numbers 8 and 6, the counts do not
BaseOverlaysDifferWitness ==
    /\ FnDone("base_overlays")
    /\ fn_call.natal_digits = build_natal_grid_digits(26, 2, 1982, 3)
    /\ fn_call.maha = 7
    /\ fn_call.personal_year = 9
    /\ fn_call.basic_numbers = <<8, 6>>
    /\ Len(fn_result.base_grid[8]) = 3
    /\ CountOf(fn_result.base_counts, 8) = 2
    /\ Len(fn_result.base_grid[6]) = 2
    /\ CountOf(fn_result.base_counts, 6) = 1

(***************************************************************************)
(* Termination of the period-generation loops                              *)
(***************************************************************************)

\* an iteration of generate_mahadasha_timeline that stays in the loop moves
\* the current date forward
MahadashaLoopAdvances ==
    (pc = "maha_loop" /\ pc' = "maha_loop") => DtLt(current_date, current_date')

\* an iteration of generate_pratyantar_periods that emits a period moves the
\* current start forward by at least 8 days
PratyantarLoopAdvances ==
    (pc = "praty_loop" /\ pc' = "praty_loop") =>
        Ordinal(current_start') >= Ordinal(current_start) + 8

\* C30: both period-generation loops always terminate: in
\* generate_mahadasha_timeline the current date strictly increases on every
\* iteration (also when the period is clipped to the horizon) until it is no
\* longer before the horizon; in generate_pratyantar_periods the current
\* start increases by at least 8 days per emitted period until the guard
\* stops the loop or the start reaches the next birthday.  A started loop
\* always ends: the timeline loop by returning, or by the ValueError of line
\* 255 for a leap-day start, the period loop by returning.
C30_LoopsTerminate ==
    /\ [][MahadashaLoopAdvances]_vars
    /\ [][PratyantarLoopAdvances]_vars
    /\ (pc = "maha_loop") ~> (pc \in {"maha_returned", "maha_raised"})
    /\ (pc = "praty_loop") ~> (pc = "praty_returned")

\* a timeline of more than nine periods has been returned, the last one
\* clipped to the horizon
C30_Witness ==
    /\ pc = "maha_returned"
    /\ Len(timeline) >= 3
    /\ FromIsoFormat(timeline[Len(timeline)].end_date) = end_date
    /\ ~DtLt(current_date, end_date)

\* generate_pratyantar_periods has returned after nine iterations
PratyantarLoopEndedWitness ==
    /\ pc = "praty_returned"
    /\ Len(periods) = 9
    /\ DtLt(current_start, next_birthday)

====
